---- MODULE Spec2Model ----
(***************************************************************************)
(* Model of the LocalRecall MCP server's tool gateway: the tool catalog    *)
(* (pkg/toolset/localrecall), the MCP server that registers and wraps the  *)
(* tools (pkg/server/mcp), the tool handlers, the parameter helpers and    *)
(* the remote API client (pkg/client).                                     *)
(*                                                                         *)
(* One tool invocation is in flight at a time, except under SpecConcurrent, *)
(* where two are.  The remote service and the file system are the          *)
(* environment: a reply, a transport failure and the outcome of a file     *)
(* read are chosen nondeterministically.                                   *)
(***************************************************************************)
EXTENDS Integers, Sequences, FiniteSets, TLC

VARIABLES
    configuration,  \* Server.configuration (config.StaticConfig)
    catalog,        \* the []toolset.ServerTool that GetTools returned
    regIdx,         \* registerTools: index of the next tool of the range loop
    enabledTools,   \* Server.enabledTools
    pc,             \* "registerTools", "idle", "waiting", "done"
    tool,           \* name of the tool being invoked ("" when idle)
    args,           \* request.Params.Arguments, the caller's map
    params,         \* the per-invocation copy the handler receives
    requests,       \* HTTP requests issued by this invocation, in order
    fileReads,      \* os.ReadFile calls made by this invocation, in order
    reply,          \* the outcome of the HTTP round trip
    result,         \* the *mcp.CallToolResult returned
    handlerRet,     \* the (string, error) the tool's handler returned
    protocolErr,    \* the error the registered handler func returned
    callerCtx,      \* state of the context the caller passed with the call
    elapsed,        \* seconds the pending HTTP round trip has lasted
    clientRet,      \* the (result, error) of a client operation called directly
    previous,       \* history: the invocation that returned last
    calls           \* the invocations in flight when several run at once

vars == <<configuration, catalog, regIdx, enabledTools, pc, tool, args,
          params, requests, fileReads, reply, result, handlerRet, protocolErr,
          callerCtx, elapsed, clientRet, previous, calls>>

-----------------------------------------------------------------------------
(* Bounds of the model *)

\* longest enabled_tools / disabled_tools list tried
MaxListLen == 2
\* largest number of result records in a reply
MaxRecords == 2
\* largest count field in an enveloped reply
MaxCount == 2
\* largest caller-supplied max_results
MaxResultsArg == 2
\* longest reply body that is not JSON
MaxBodyLen == 2

-----------------------------------------------------------------------------
(* Dynamically typed values (Go interface{} holding decoded JSON) *)

Absent == [k |-> "absent", s |-> "", n |-> 0, a |-> <<>>]
Str(s) == [k |-> "string", s |-> s, n |-> 0, a |-> <<>>]
Num(n) == [k |-> "number", s |-> "", n |-> n, a |-> <<>>]
Bool(b) == [k |-> "bool", s |-> "", n |-> IF b THEN 1 ELSE 0, a |-> <<>>]
\* a JSON array; its elements are values themselves
Arr(a) == [k |-> "array", s |-> "", n |-> 0, a |-> a]
\* a JSON object standing for one opaque record, named by s
Rec(s) == [k |-> "object", s |-> s, n |-> 0, a |-> <<>>]
\* a JSON object of string members (map[string]string), a its members
Map(a) == [k |-> "object", s |-> "", n |-> 0, a |-> a]

Null == [k |-> "null", s |-> "", n |-> 0, a |-> <<>>]

ParamKeys == {"collection_name", "query", "max_results", "format",
              "min_similarity", "filters",
              "filename", "file_path", "file_content", "entry", "url",
              "update_interval", "name"}

NoParams == [key \in ParamKeys |-> Absent]

With(m, key, v) == [m EXCEPT ![key] = v]

Contains(list, x) == \E i \in 1..Len(list) : list[i] = x

-----------------------------------------------------------------------------
(* Tool catalog: pkg/toolset/localrecall *)

prop(typ, desc) == typ

NoProps == [x \in {} |-> ""]

collectionTools ==
    << [name |-> "search",
        descDefault |-> "Search content in LocalRecall collection",
        descGeneric |-> "Search content in a LocalRecall collection",
        handler |-> "SearchHandler",
        props |-> [x \in {"query", "max_results", "min_similarity", "filters"} |->
                     CASE x = "query" -> prop("string", "The search query")
                       [] x = "max_results" -> prop("number", "Maximum number of results")
                       [] x = "min_similarity" -> prop("number", "Minimum cosine similarity")
                       [] x = "filters" -> "object"],
        required |-> <<"query">>],
       [name |-> "add_document",
        descDefault |-> "Add a document to LocalRecall collection",
        descGeneric |-> "Add a document to a LocalRecall collection",
        handler |-> "AddDocumentHandler",
        props |-> [x \in {"filename", "file_path", "file_content"} |->
                     prop("string", "")],
        required |-> <<"filename">>],
       [name |-> "list_files",
        descDefault |-> "List files in LocalRecall collection",
        descGeneric |-> "List files in a LocalRecall collection",
        handler |-> "ListFilesHandler",
        props |-> NoProps,
        required |-> <<>>],
       [name |-> "delete_entry",
        descDefault |-> "Delete an entry from LocalRecall collection",
        descGeneric |-> "Delete an entry from a LocalRecall collection",
        handler |-> "DeleteEntryHandler",
        props |-> [x \in {"entry"} |-> prop("string", "")],
        required |-> <<"entry">>],
       [name |-> "get_entry_content",
        descDefault |-> "Get the content of a specific entry in LocalRecall collection",
        descGeneric |-> "Get the content of a specific entry in a LocalRecall collection",
        handler |-> "GetEntryContentHandler",
        props |-> [x \in {"entry"} |-> prop("string", "")],
        required |-> <<"entry">>],
       [name |-> "register_source",
        descDefault |-> "Register an external source for LocalRecall collection",
        descGeneric |-> "Register an external source for a LocalRecall collection",
        handler |-> "RegisterSourceHandler",
        props |-> [x \in {"url", "update_interval"} |->
                     IF x = "url" THEN prop("string", "") ELSE prop("number", "")],
        required |-> <<"url">>],
       [name |-> "remove_source",
        descDefault |-> "Remove an external source from LocalRecall collection",
        descGeneric |-> "Remove an external source from a LocalRecall collection",
        handler |-> "RemoveSourceHandler",
        props |-> [x \in {"url"} |-> prop("string", "")],
        required |-> <<"url">>],
       [name |-> "list_sources",
        descDefault |-> "List external sources for LocalRecall collection",
        descGeneric |-> "List external sources for a LocalRecall collection",
        handler |-> "ListSourcesHandler",
        props |-> NoProps,
        required |-> <<>>],
       [name |-> "reindex",
        descDefault |-> "Re-chunk and re-index all documents in LocalRecall collection",
        descGeneric |-> "Re-chunk and re-index all documents in a LocalRecall collection using the current chunking strategy",
        handler |-> "ReindexHandler",
        props |-> NoProps,
        required |-> <<>>] >>

\* mutant: the earlier catalog, which kept collection_name as an optional
\* property of the pinned variant
buildCollectionTool_optional(DefaultCollection, def) ==
    [name |-> def.name,
     handler |-> def.handler,
     props |-> def.props @@ ("collection_name" :> prop("string", "")),
     required |-> IF DefaultCollection # "" THEN def.required
                  ELSE <<"collection_name">> \o def.required,
     description |-> IF DefaultCollection # ""
                     THEN <<def.descDefault, " '", DefaultCollection, "'">>
                     ELSE <<def.descGeneric>>]

buildCollectionTool(DefaultCollection, def) ==
    IF DefaultCollection # ""
    THEN [name |-> def.name,
          handler |-> def.handler,
          props |-> def.props,
          required |-> def.required,
          description |-> <<def.descDefault, " '", DefaultCollection, "'">>]
    ELSE [name |-> def.name,
          handler |-> def.handler,
          props |-> def.props @@
                    ("collection_name" :> prop("string", "The name of the collection")),
          required |-> <<"collection_name">> \o def.required,
          description |-> <<def.descGeneric>>]

adminTools ==
    << [name |-> "create_collection",
        handler |-> "CreateCollectionHandler",
        props |-> [x \in {"name"} |-> prop("string", "")],
        required |-> <<"name">>,
        description |-> <<"Create a new collection in LocalRecall">>],
       [name |-> "reset_collection",
        handler |-> "ResetCollectionHandler",
        props |-> [x \in {"name"} |-> prop("string", "")],
        required |-> <<"name">>,
        description |-> <<"Reset (clear) a collection in LocalRecall">>],
       [name |-> "list_collections",
        handler |-> "ListCollectionsHandler",
        props |-> NoProps,
        required |-> <<>>,
        description |-> <<"List all collections in LocalRecall">>] >>

\* mutant: the earlier catalog, which appended the collection-independent
\* tools whatever the default collection
GetTools_always(DefaultCollection) ==
    [i \in 1..Len(collectionTools) |->
        buildCollectionTool(DefaultCollection, collectionTools[i])] \o adminTools

GetTools(DefaultCollection) ==
    LET tools == [i \in 1..Len(collectionTools) |->
                    buildCollectionTool(DefaultCollection, collectionTools[i])]
    IN IF DefaultCollection = "" THEN tools \o adminTools ELSE tools

CollectionToolNames == {collectionTools[i].name : i \in 1..Len(collectionTools)}
AdminToolNames == {adminTools[i].name : i \in 1..Len(adminTools)}
ToolNames == CollectionToolNames \cup AdminToolNames

-----------------------------------------------------------------------------
(* MCP server construction: pkg/server/mcp *)

\* mutant: the enabled-list consulted first, so that it wins over the
\* disabled-list
shouldEnableTool_enabledFirst(toolName) ==
    IF Len(configuration.EnabledTools) > 0
    THEN Contains(configuration.EnabledTools, toolName)
    ELSE ~Contains(configuration.DisabledTools, toolName)

shouldEnableTool(toolName) ==
    IF Contains(configuration.DisabledTools, toolName) THEN FALSE
    ELSE IF Len(configuration.EnabledTools) > 0
         THEN Contains(configuration.EnabledTools, toolName)
         ELSE TRUE

\* one iteration of the range loop of registerTools, registerTool included
registerTools ==
    /\ pc = "registerTools"
    /\ IF regIdx <= Len(catalog)
       THEN /\ enabledTools' =
                 IF shouldEnableTool(catalog[regIdx].name)
                 THEN Append(enabledTools, catalog[regIdx].name)
                 ELSE enabledTools
            /\ regIdx' = regIdx + 1
            /\ pc' = pc
       ELSE /\ pc' = "idle"
            /\ UNCHANGED <<enabledTools, regIdx>>
    /\ UNCHANGED <<configuration, catalog, previous, calls, tool, args, params, requests,
                   fileReads, reply, result, handlerRet, protocolErr,
                   callerCtx, elapsed, clientRet>>

-----------------------------------------------------------------------------
(* Parameter helpers: pkg/toolset/handler/params.go *)

\* errors are texts, a text is a sequence of pieces; nil is the empty text
Nil == <<>>

GetStringParam(p, key, defaultValue) ==
    IF p[key].k = "string" THEN p[key].s ELSE defaultValue

\* the integers whose decimal spelling fmt.Sscanf("%d") is tried on
Spelled == -1..(MaxResultsArg + 1)

Sscanf(s) ==
    IF \E i \in Spelled : ToString(i) = s
    THEN [n |-> CHOOSE i \in Spelled : ToString(i) = s, ok |-> TRUE]
    ELSE [n |-> 0, ok |-> FALSE]

GetIntParam(p, key, defaultValue) ==
    CASE p[key].k = "number" -> p[key].n
      [] p[key].k = "string" ->
            IF Sscanf(p[key].s).ok THEN Sscanf(p[key].s).n ELSE defaultValue
      [] OTHER -> defaultValue

\* mutant: empty strings accepted
RequireStringParam_allowEmpty(p, key) ==
    CASE p[key].k = "absent" ->
            [val |-> "", err |-> <<"missing required parameter: ", key>>]
      [] p[key].k # "string" ->
            [val |-> "", err |-> <<"parameter ", key, " must be a string">>]
      [] OTHER -> [val |-> p[key].s, err |-> Nil]

RequireStringParam(p, key) ==
    CASE p[key].k = "absent" ->
            [val |-> "", err |-> <<"missing required parameter: ", key>>]
      [] p[key].k # "string" ->
            [val |-> "", err |-> <<"parameter ", key, " must be a string">>]
      [] p[key].s = "" ->
            [val |-> "", err |-> <<"parameter ", key, " cannot be empty">>]
      [] OTHER -> [val |-> p[key].s, err |-> Nil]

\* min_similarity is carried in hundredths
GetFloat64Param(p, key, defaultValue) ==
    IF p[key].k = "number" THEN p[key].n ELSE defaultValue

GetStringMapParam(p, key) ==
    IF p[key].k = "object" THEN p[key].a ELSE <<>>

-----------------------------------------------------------------------------
(* Remote replies *)

DataKeys == {"query", "max_results", "results", "count", "created_at",
             "reset_at", "collection", "entry", "content", "chunk_count",
             "collections", "entries", "remaining_entries", "entry_count",
             "url", "update_interval", "sources", "documents",
             "chunks_before", "chunks_after", "reindexed_at"}

EmptyObject == [key \in DataKeys |-> Absent]

Records(n) == [i \in 1..n |-> Rec(ToString(i))]
Names(n) == [i \in 1..n |-> Str(ToString(i))]

\* a data object that carries every field the client reads: n elements in
\* each array, count in each counter
DataObject(count, n) ==
    [key \in DataKeys |->
        CASE key \in {"results", "sources"} -> Arr(Records(n))
          [] key \in {"collections", "entries", "remaining_entries"} -> Arr(Names(n))
          [] key \in {"count", "entry_count", "chunk_count", "documents",
                      "chunks_before", "chunks_after"} -> count
          [] key = "max_results" -> Num(5)
          [] key = "update_interval" -> Num(60)
          [] OTHER -> Str(key)]

NoData == [k |-> "absent", f |-> EmptyObject]
NoError == [present |-> FALSE, Code |-> "", Message |-> "", Details |-> ""]

CountValues == {Absent, Str("2")} \cup {Num(c) : c \in 0..MaxCount}

DataValues ==
    {NoData, [k |-> "string", f |-> EmptyObject], [k |-> "array", f |-> EmptyObject],
     [k |-> "object", f |-> EmptyObject]}
    \cup {[k |-> "object", f |-> DataObject(c, n)] :
             c \in CountValues, n \in 0..MaxRecords}

ErrorValues ==
    {NoError,
     [present |-> TRUE, Code |-> "NOT_FOUND", Message |-> "Collection not found",
      Details |-> ""],
     [present |-> TRUE, Code |-> "NOT_FOUND", Message |-> "Collection not found",
      Details |-> "Collection 'x' does not exist"]}

\* the characters a body that is not JSON is made of; none of them can start
\* a JSON value
BodyChars == {"C", "<"}

SeqsUpTo(S, n) == UNION {[1..m -> S] : m \in 0..n}

Body(shape, chars, n, success, data, error) ==
    [shape |-> shape, chars |-> chars, success |-> success,
     data |-> data, error |-> error, items |-> Records(n)]

InvalidBodies == {Body("invalid", c, 0, "absent", NoData, NoError) :
                     c \in SeqsUpTo(BodyChars, MaxBodyLen)}
ArrayBodies == {Body("array", <<>>, n, "absent", NoData, NoError) :
                   n \in 0..MaxRecords}
EnvelopeBodies ==
    {Body("envelope", <<>>, 0, "true", d, NoError) : d \in DataValues}
    \cup {Body("envelope", <<>>, 0, s, d, e) :
             s \in {"false", "absent"},
             d \in {NoData, [k |-> "string", f |-> EmptyObject],
                    [k |-> "object", f |-> DataObject(Num(1), 1)]},
             e \in ErrorValues}

Bodies == InvalidBodies \cup ArrayBodies \cup EnvelopeBodies

StatusCodes == {200, 404}

NoReply == [kind |-> "none", status |-> 0,
            body |-> Body("none", <<>>, 0, "absent", NoData, NoError)]

HTTPReply(status, body) == [kind |-> "http", status |-> status, body |-> body]

\* httpClient.Do returned an error: the client's Timeout ran out, or the
\* connection was refused
TransportFailures == {"timeout", "refused"}

\* httpClient.Do returned the error of the request's context
ContextFailures == {"canceled", "deadline"}

\* the text of the error of httpClient.Do, after the method and the URL
DoErrorText(why) ==
    CASE why = "timeout" ->
            <<"context deadline exceeded (Client.Timeout exceeded while awaiting headers)">>
      [] why = "refused" -> <<"connect: connection refused">>
      [] why = "canceled" -> <<"context canceled">>
      [] why = "deadline" -> <<"context deadline exceeded">>

DoError(why) == [kind |-> why, status |-> 0,
                 body |-> Body("none", <<>>, 0, "absent", NoData, NoError)]

\* len(respBody); a record of a bare array is written {}
BodyLength(body) ==
    CASE body.shape = "invalid" -> Len(body.chars)
      [] body.shape = "array" ->
            IF Len(body.items) = 0 THEN 2 ELSE 3 * Len(body.items) + 1
      [] OTHER -> 2

-----------------------------------------------------------------------------
(* Remote API client: pkg/client/localrecall.go *)

\* the text of the error json.Unmarshal returns
UnmarshalError(body) ==
    CASE body.shape = "invalid" /\ body.chars = <<>> ->
            <<"unexpected end of JSON input">>
      [] body.shape = "invalid" ->
            <<"invalid character '", body.chars[1],
              "' looking for beginning of value">>
      [] body.shape = "array" ->
            <<"json: cannot unmarshal array into Go value of type client.APIResponse">>
      [] OTHER -> Nil

\* the APIResponse json.Unmarshal fills from an envelope
Decoded(body) ==
    [Success |-> body.success = "true", Data |-> body.data, Error |-> body.error]

NoResponse == [Success |-> FALSE, Data |-> NoData, Error |-> NoError]

\* mutant: the details are appended whether or not there are any
APIErrorText_alwaysDetails(e) ==
    IF e.present
    THEN <<e.Code, ": ", e.Message, " - ", e.Details>>
    ELSE <<"unknown error">>

APIErrorText(e) ==
    IF e.present
    THEN <<e.Code, ": ", e.Message>> \o
         (IF e.Details # "" THEN <<" - ", e.Details>> ELSE <<>>)
    ELSE <<"unknown error">>

\* mutant: an envelope without success, error and data is not told apart
parseAPIResponse_noValidityCheck(respBody, statusCode) ==
    IF UnmarshalError(respBody) # Nil
    THEN [err |-> <<"failed to parse response (status: ", ToString(statusCode),
                    ", body length: ", ToString(BodyLength(respBody)), "): ">>
                  \o UnmarshalError(respBody),
          resp |-> NoResponse]
    ELSE LET apiResp == Decoded(respBody)
         IN CASE ~apiResp.Success ->
                    [err |-> <<"API error: ">> \o APIErrorText(apiResp.Error),
                     resp |-> NoResponse]
              [] OTHER -> [err |-> Nil, resp |-> apiResp]

\* mutant: the decode error quotes the body instead of giving its length
parseAPIResponse_quotesBody(respBody, statusCode) ==
    IF UnmarshalError(respBody) # Nil
    THEN [err |-> <<"failed to parse response (status: ", ToString(statusCode),
                    ", body: ">> \o respBody.chars \o <<"): ">>
                  \o UnmarshalError(respBody),
          resp |-> NoResponse]
    ELSE LET apiResp == Decoded(respBody)
         IN CASE ~apiResp.Success /\ ~apiResp.Error.present
                 /\ apiResp.Data.k = "absent" ->
                    [err |-> <<"invalid API response: missing success, error, and data fields">>,
                     resp |-> NoResponse]
              [] ~apiResp.Success ->
                    [err |-> <<"API error: ">> \o APIErrorText(apiResp.Error),
                     resp |-> NoResponse]
              [] OTHER -> [err |-> Nil, resp |-> apiResp]

\* mutant: a status code of 400 and above is an error whatever the body says
parseAPIResponse_checksStatus(respBody, statusCode) ==
    IF UnmarshalError(respBody) # Nil
    THEN [err |-> <<"failed to parse response (status: ", ToString(statusCode),
                    ", body length: ", ToString(BodyLength(respBody)), "): ">>
                  \o UnmarshalError(respBody),
          resp |-> NoResponse]
    ELSE LET apiResp == Decoded(respBody)
         IN CASE statusCode >= 400 ->
                    [err |-> <<"API error: status ", ToString(statusCode)>>,
                     resp |-> NoResponse]
              [] ~apiResp.Success /\ ~apiResp.Error.present
                 /\ apiResp.Data.k = "absent" ->
                    [err |-> <<"invalid API response: missing success, error, and data fields">>,
                     resp |-> NoResponse]
              [] ~apiResp.Success ->
                    [err |-> <<"API error: ">> \o APIErrorText(apiResp.Error),
                     resp |-> NoResponse]
              [] OTHER -> [err |-> Nil, resp |-> apiResp]

parseAPIResponse(respBody, statusCode) ==
    IF UnmarshalError(respBody) # Nil
    THEN [err |-> <<"failed to parse response (status: ", ToString(statusCode),
                    ", body length: ", ToString(BodyLength(respBody)), "): ">>
                  \o UnmarshalError(respBody),
          resp |-> NoResponse]
    ELSE LET apiResp == Decoded(respBody)
         IN CASE ~apiResp.Success /\ ~apiResp.Error.present
                 /\ apiResp.Data.k = "absent" ->
                    [err |-> <<"invalid API response: missing success, error, and data fields">>,
                     resp |-> NoResponse]
              [] ~apiResp.Success ->
                    [err |-> <<"API error: ">> \o APIErrorText(apiResp.Error),
                     resp |-> NoResponse]
              [] OTHER -> [err |-> Nil, resp |-> apiResp]

\* mutant: data that is no object is read as an empty object
getDataMap_lenient(resp) ==
    IF resp.Data.k = "object"
    THEN [err |-> Nil, data |-> resp.Data.f]
    ELSE [err |-> Nil, data |-> EmptyObject]

getDataMap(resp) ==
    IF resp.Data.k = "object"
    THEN [err |-> Nil, data |-> resp.Data.f]
    ELSE [err |-> <<"unexpected response data format">>, data |-> EmptyObject]

getStringField(data, field) ==
    IF data[field].k = "string" THEN data[field].s ELSE ""

getIntField(data, field) ==
    IF data[field].k = "number" THEN data[field].n ELSE 0

OfKind(a, kind) == SelectSeq(a, LAMBDA v : v.k = kind)

\* []string{} and the strings of the array appended to it
getStringArray(data, field) ==
    IF data[field].k = "array" THEN Arr(OfKind(data[field].a, "string")) ELSE Arr(<<>>)

\* a nil slice unless an object of the array was appended to it
getMapArray(data, field) ==
    IF data[field].k = "array" /\ OfKind(data[field].a, "object") # <<>>
    THEN Arr(OfKind(data[field].a, "object"))
    ELSE Null

\* an HTTP request as the remote sees it
BodyKeys == {"query", "max_results", "min_similarity", "filters", "name",
             "entry", "url", "update_interval"}

NoBody == [key \in BodyKeys |-> Absent]

\* mutant: the header is set whether or not there is a key
Authorization_always(apiKey) == <<"Bearer ", apiKey>>

Authorization(apiKey) == IF apiKey # "" THEN <<"Bearer ", apiKey>> ELSE <<>>

\* a context.Context: context.Background(), or the context of the caller
Background == "background"
Caller == "caller"

\* mutant: the request is made without the context
makeRequest_unbound(ctx, method, endpoint, hasBody, body) ==
    [body |-> body,
     ctx |-> Background, method |-> method, hasBody |-> hasBody, path |-> endpoint,
     contentType |-> IF hasBody THEN "application/json" ELSE "",
     authorization |-> Authorization(configuration.LocalRecallAPIKey),
     formFile |-> <<>>]

\* the request is made with http.NewRequestWithContext(ctx, ...)
makeRequest(ctx, method, endpoint, hasBody, body) ==
    [body |-> body,
     ctx |-> ctx, method |-> method, hasBody |-> hasBody, path |-> endpoint,
     contentType |-> IF hasBody THEN "application/json" ELSE "",
     authorization |-> Authorization(configuration.LocalRecallAPIKey),
     formFile |-> <<>>]

\* the form carries one file field, "file", with the filename and the content
makeMultipartRequest(ctx, endpoint, filename, fileContent) ==
    [body |-> NoBody,
     ctx |-> ctx, method |-> "POST", hasBody |-> TRUE, path |-> endpoint,
     contentType |-> "multipart/form-data",
     authorization |-> Authorization(configuration.LocalRecallAPIKey),
     formFile |-> <<"file", filename, fileContent>>]

\* what makeRequest and makeMultipartRequest return once httpClient.Do is over
roundTrip(r) ==
    IF r.kind = "http"
    THEN parseAPIResponse(r.body, r.status)
    ELSE [err |-> <<"failed to make request: ">> \o DoErrorText(r.kind),
          resp |-> NoResponse]

DefaultMaxResults == 5

\* mutant: max_results sent as given
SearchMaxResults_asGiven(maxResults) == maxResults

SearchMaxResults(maxResults) ==
    IF maxResults = 0 THEN DefaultMaxResults ELSE maxResults

SearchRequest(ctx, collectionName, query, maxResults) ==
    makeRequest(ctx, "POST", <<"/api/collections/", collectionName, "/search">>, TRUE,
                [NoBody EXCEPT !["query"] = Str(query),
                               !["max_results"] = Num(SearchMaxResults(maxResults))])

\* opts is nil or a SearchOptions
NilOptions == [nil |-> TRUE, MinSimilarity |-> 0, Filters |-> <<>>]

\* mutant: the options are written into the body whenever there are options
SearchWithOptionsRequest_always(ctx, collectionName, query, maxResults, opts) ==
    LET r == SearchRequest(ctx, collectionName, query, maxResults)
    IN IF opts.nil THEN r
       ELSE [r EXCEPT !.body =
                With(With(r.body, "min_similarity", Num(opts.MinSimilarity)),
                     "filters", Map(opts.Filters))]

SearchWithOptionsRequest(ctx, collectionName, query, maxResults, opts) ==
    LET r == SearchRequest(ctx, collectionName, query, maxResults)
        b1 == IF ~opts.nil /\ opts.MinSimilarity > 0
              THEN With(r.body, "min_similarity", Num(opts.MinSimilarity))
              ELSE r.body
        b2 == IF ~opts.nil /\ Len(opts.Filters) > 0
              THEN With(b1, "filters", Map(opts.Filters))
              ELSE b1
    IN [r EXCEPT !.body = b2]

\* the path segments a string occupies once fmt.Sprintf has written it into
\* the endpoint with %s and the URL has been parsed: a "/" in it separates
\* segments
Split(str) ==
    CASE str = "a/b" -> <<"a", "b">>
      [] OTHER -> <<str>>

\* the segments of the constant parts of the endpoint formats
Literal(part) ==
    CASE part \in {"/api/collections", "/api/collections/"} -> <<"api", "collections">>
      [] part = "/search" -> <<"search">>
      [] part = "/reset" -> <<"reset">>
      [] part = "/upload" -> <<"upload">>
      [] part \in {"/entries", "/entries/"} -> <<"entries">>
      [] part = "/entry/delete" -> <<"entry", "delete">>
      [] part = "/sources" -> <<"sources">>
      [] part = "/reindex" -> <<"reindex">>

\* the path of the request as the remote's router sees it: the constant
\* parts of the format are at the odd places, the %s arguments at the even
URLSegments(path) ==
    LET RECURSIVE from(_)
        from(i) == IF i > Len(path) THEN <<>>
                   ELSE (IF i % 2 = 0 THEN Split(path[i]) ELSE Literal(path[i]))
                        \o from(i + 1)
    IN from(1)

\* the requests of the other client operations
Endpoint(collectionName, suffix) == <<"/api/collections/", collectionName, suffix>>

CreateCollectionRequest(ctx, name) ==
    makeRequest(ctx, "POST", <<"/api/collections">>, TRUE,
                With(NoBody, "name", Str(name)))

ResetCollectionRequest(ctx, name) ==
    makeRequest(ctx, "POST", Endpoint(name, "/reset"), FALSE, NoBody)

AddDocumentRequest(ctx, collectionName, filename, fileContent) ==
    makeMultipartRequest(ctx, Endpoint(collectionName, "/upload"), filename,
                         fileContent)

GetEntryContentRequest(ctx, collectionName, entry) ==
    makeRequest(ctx, "GET",
                <<"/api/collections/", collectionName, "/entries/", entry>>,
                FALSE, NoBody)

ListCollectionsRequest(ctx) ==
    makeRequest(ctx, "GET", <<"/api/collections">>, FALSE, NoBody)

ListFilesRequest(ctx, collectionName) ==
    makeRequest(ctx, "GET", Endpoint(collectionName, "/entries"), FALSE, NoBody)

DeleteEntryRequest(ctx, collectionName, entry) ==
    makeRequest(ctx, "DELETE", Endpoint(collectionName, "/entry/delete"), TRUE,
                With(NoBody, "entry", Str(entry)))

RegisterSourceRequest(ctx, collectionName, sourceURL, updateInterval) ==
    LET body == With(NoBody, "url", Str(sourceURL))
    IN makeRequest(ctx, "POST", Endpoint(collectionName, "/sources"), TRUE,
                   IF updateInterval > 0
                   THEN With(body, "update_interval", Num(updateInterval))
                   ELSE body)

RemoveSourceRequest(ctx, collectionName, sourceURL) ==
    makeRequest(ctx, "DELETE", Endpoint(collectionName, "/sources"), TRUE,
                With(NoBody, "url", Str(sourceURL)))

ListSourcesRequest(ctx, collectionName) ==
    makeRequest(ctx, "GET", Endpoint(collectionName, "/sources"), FALSE, NoBody)

ReindexRequest(ctx, collectionName) ==
    makeRequest(ctx, "POST", Endpoint(collectionName, "/reindex"), FALSE, NoBody)

\* one field of a typed result: its Go name, its json key, its yaml key,
\* whether the json tag says omitempty, and its value
F(go, json, yaml, omitempty, val) ==
    [val |-> val, go |-> go, json |-> json, yaml |-> yaml, omitempty |-> omitempty]

NoResultValue == [type |-> "nil", fields |-> <<>>]

\* mutant: the count recomputed from the results
SearchCount_recomputed(data) ==
    IF data["results"].k = "array" THEN Len(OfKind(data["results"].a, "object"))
    ELSE 0

SearchCount(data) == getIntField(data, "count")

SearchResult(data) ==
    [type |-> "SearchResult",
     fields |-> << F("Query", "query", "query", FALSE, Str(getStringField(data, "query"))),
                   F("MaxResults", "max_results", "maxresults", FALSE,
                     Num(getIntField(data, "max_results"))),
                   F("Results", "results", "results", FALSE, getMapArray(data, "results")),
                   F("Count", "count", "count", FALSE, Num(SearchCount(data))) >>]

CollectionInfo(name, createdAt, resetAt) ==
    [type |-> "CollectionInfo",
     fields |-> << F("Name", "name", "name", FALSE, Str(name)),
                   F("CreatedAt", "created_at", "createdat", TRUE, Str(createdAt)),
                   F("ResetAt", "reset_at", "resetat", TRUE, Str(resetAt)) >>]

DocumentInfo(filename, collection, createdAt) ==
    [type |-> "DocumentInfo",
     fields |-> << F("Filename", "filename", "filename", FALSE, Str(filename)),
                   F("Collection", "collection", "collection", FALSE, Str(collection)),
                   F("CreatedAt", "created_at", "createdat", TRUE, Str(createdAt)) >>]

EntryContent(data) ==
    [type |-> "EntryContent",
     fields |-> << F("Collection", "collection", "collection", FALSE,
                     Str(getStringField(data, "collection"))),
                   F("Entry", "entry", "entry", FALSE, Str(getStringField(data, "entry"))),
                   F("Content", "content", "content", FALSE,
                     Str(getStringField(data, "content"))),
                   F("ChunkCount", "chunk_count", "chunkcount", FALSE,
                     Num(getIntField(data, "chunk_count"))) >>]

CollectionsList(data) ==
    [type |-> "CollectionsList",
     fields |-> << F("Collections", "collections", "collections", FALSE,
                     getStringArray(data, "collections")),
                   F("Count", "count", "count", FALSE, Num(getIntField(data, "count"))) >>]

FilesList(collectionName, data) ==
    [type |-> "FilesList",
     fields |-> << F("Collection", "collection", "collection", FALSE, Str(collectionName)),
                   F("Entries", "entries", "entries", FALSE, getStringArray(data, "entries")),
                   F("Count", "count", "count", FALSE, Num(getIntField(data, "count"))) >>]

DeleteResult(entry, data) ==
    [type |-> "DeleteResult",
     fields |-> << F("DeletedEntry", "deleted_entry", "deletedentry", FALSE, Str(entry)),
                   F("RemainingEntries", "remaining_entries", "remainingentries", FALSE,
                     getStringArray(data, "remaining_entries")),
                   F("EntryCount", "entry_count", "entrycount", FALSE,
                     Num(getIntField(data, "entry_count"))) >>]

SourceInfo(data) ==
    [type |-> "SourceInfo",
     fields |-> << F("Collection", "collection", "collection", FALSE,
                     Str(getStringField(data, "collection"))),
                   F("URL", "url", "url", FALSE, Str(getStringField(data, "url"))),
                   F("UpdateInterval", "update_interval", "updateinterval", FALSE,
                     Num(getIntField(data, "update_interval"))) >>]

SourcesList(data) ==
    [type |-> "SourcesList",
     fields |-> << F("Collection", "collection", "collection", FALSE,
                     Str(getStringField(data, "collection"))),
                   F("Sources", "sources", "sources", FALSE, getMapArray(data, "sources")),
                   F("Count", "count", "count", FALSE, Num(getIntField(data, "count"))) >>]

ReindexResult(data) ==
    [type |-> "ReindexResult",
     fields |-> << F("Collection", "collection", "collection", FALSE,
                     Str(getStringField(data, "collection"))),
                   F("Documents", "documents", "documents", FALSE,
                     Num(getIntField(data, "documents"))),
                   F("ChunksBefore", "chunks_before", "chunksbefore", FALSE,
                     Num(getIntField(data, "chunks_before"))),
                   F("ChunksAfter", "chunks_after", "chunksafter", FALSE,
                     Num(getIntField(data, "chunks_after"))),
                   F("ReindexedAt", "reindexed_at", "reindexedat", FALSE,
                     Str(getStringField(data, "reindexed_at"))) >>]

\* the map RemoveSourceHandler builds
RemovedSource(collectionName, sourceURL) ==
    [type |-> "map",
     fields |-> << F("collection", "collection", "collection", FALSE, Str(collectionName)),
                   F("url", "url", "url", FALSE, Str(sourceURL)),
                   F("removed", "removed", "removed", FALSE, Bool(TRUE)) >>]

\* the data object a client operation reads its result from
ReplyData(r) == getDataMap(roundTrip(r).resp).data

\* the part of a client operation after makeRequest: the error of the round
\* trip, else the error of getDataMap, else the result built of the data
Typed(r, built) ==
    LET rt == roundTrip(r)
        dm == getDataMap(rt.resp)
    IN CASE rt.err # Nil -> [val |-> NoResultValue, err |-> rt.err]
         [] dm.err # Nil -> [val |-> NoResultValue, err |-> dm.err]
         [] OTHER -> [val |-> built, err |-> Nil]

\* the part of Search after makeRequest
Search(r) == Typed(r, SearchResult(ReplyData(r)))

\* RemoveSource returns the error of makeRequest and nothing else
RemoveSource(r) == roundTrip(r).err

\* the operations of the client, as a program that holds a Client calls them
ClientOperations ==
    {"Search", "CreateCollection", "ResetCollection", "AddDocument",
     "GetEntryContent", "ListCollections", "ListFiles", "DeleteEntry",
     "RegisterSource", "RemoveSource", "ListSources"}

\* the request of an operation called with ctx, on the arguments of the
\* client's tests
ClientRequest(op, ctx) ==
    CASE op = "Search" -> SearchRequest(ctx, "test", "query", 5)
      [] op = "CreateCollection" -> CreateCollectionRequest(ctx, "test")
      [] op = "ResetCollection" -> ResetCollectionRequest(ctx, "test")
      [] op = "AddDocument" ->
            AddDocumentRequest(ctx, "test", "test.txt", <<"test content">>)
      [] op = "GetEntryContent" -> GetEntryContentRequest(ctx, "test", "doc.txt")
      [] op = "ListCollections" -> ListCollectionsRequest(ctx)
      [] op = "ListFiles" -> ListFilesRequest(ctx, "test")
      [] op = "DeleteEntry" -> DeleteEntryRequest(ctx, "test", "doc.txt")
      [] op = "RegisterSource" -> RegisterSourceRequest(ctx, "test", "http://src", 60)
      [] op = "RemoveSource" -> RemoveSourceRequest(ctx, "test", "http://src")
      [] op = "ListSources" -> ListSourcesRequest(ctx, "test")

\* what the operation returns once its round trip is over with outcome r
ClientResult(op, r) ==
    CASE op = "Search" -> Search(r)
      [] op = "CreateCollection" ->
            Typed(r, CollectionInfo("test", getStringField(ReplyData(r), "created_at"), ""))
      [] op = "ResetCollection" ->
            Typed(r, CollectionInfo("test", "", getStringField(ReplyData(r), "reset_at")))
      [] op = "AddDocument" ->
            Typed(r, DocumentInfo("test.txt", "test",
                                  getStringField(ReplyData(r), "created_at")))
      [] op = "GetEntryContent" -> Typed(r, EntryContent(ReplyData(r)))
      [] op = "ListCollections" -> Typed(r, CollectionsList(ReplyData(r)))
      [] op = "ListFiles" -> Typed(r, FilesList("test", ReplyData(r)))
      [] op = "DeleteEntry" -> Typed(r, DeleteResult("doc.txt", ReplyData(r)))
      [] op = "RegisterSource" -> Typed(r, SourceInfo(ReplyData(r)))
      [] op = "RemoveSource" -> [val |-> NoResultValue, err |-> RemoveSource(r)]
      [] op = "ListSources" -> Typed(r, SourcesList(ReplyData(r)))

-----------------------------------------------------------------------------
(* Output formatting: pkg/toolset/handler/format.go *)

IsEmptyValue(v) ==
    \/ v.k \in {"absent", "null"}
    \/ v.k = "string" /\ v.s = ""
    \/ v.k = "number" /\ v.n = 0
    \/ v.k = "array" /\ v.a = <<>>

Fields(data) == {data.fields[i] : i \in 1..Len(data.fields)}

\* the Go type of a field of the typed results
GoType(go) ==
    CASE go \in {"MaxResults", "Count", "ChunkCount", "EntryCount",
                 "UpdateInterval"} -> "int"
      [] go \in {"Collections", "Entries", "RemainingEntries"} -> "[]string"
      [] go \in {"Results", "Sources"} -> "[]map[string]interface{}"
      [] OTHER -> "string"

\* what json.Unmarshal leaves in a field of type typ: the zero value when the
\* document has no member for it, a nil slice for null, the member's value
\* when it is of the field's type
UnmarshalField(typ, members) ==
    LET zero == CASE typ = "string" -> Str("")
                  [] typ = "int" -> Num(0)
                  [] OTHER -> Null
    IN IF members = {} THEN zero
       ELSE LET v == CHOOSE m \in members : TRUE
            IN CASE typ = "string" /\ v.k = "string" -> v
                 [] typ = "int" /\ v.k = "number" -> v
                 [] typ \notin {"string", "int"} /\ v.k = "array" -> v
                 [] OTHER -> zero

\* json.Unmarshal of a document into a value of the type of like: the members
\* are matched with the json keys of the type's fields
ParseJSON(doc, like) ==
    [type |-> like.type,
     fields |-> [i \in 1..Len(like.fields) |->
                   LET f == like.fields[i]
                   IN F(f.go, f.json, f.yaml, f.omitempty,
                        UnmarshalField(GoType(f.go),
                                       {m[2] : m \in {x \in doc : x[1] = f.json}}))]]

\* mutant: the fields are written under the lowercased Go names, as without
\* their json tags
FormatJSON_untagged(data) ==
    [doc |-> {<<f.yaml, f.val>> : f \in {g \in Fields(data) :
                                            ~(g.omitempty /\ IsEmptyValue(g.val))}},
     enc |-> "json"]

FormatJSON(data) ==
    [doc |-> {<<f.json, f.val>> : f \in {g \in Fields(data) :
                                            ~(g.omitempty /\ IsEmptyValue(g.val))}},
     enc |-> "json"]

FormatYAML(data) ==
    [doc |-> {<<f.yaml, f.val>> : f \in Fields(data)}, enc |-> "yaml"]

\* mutant: a format that is neither yaml nor json is taken for yaml
FormatOutput_yamlFallback(data, format) ==
    CASE format = "yaml" -> FormatYAML(data)
      [] format = "json" -> FormatJSON(data)
      [] OTHER -> FormatYAML(data)

FormatOutput(data, format) ==
    CASE format = "yaml" -> FormatYAML(data)
      [] format = "json" -> FormatJSON(data)
      [] OTHER -> FormatJSON(data)

-----------------------------------------------------------------------------
(* Tool handlers: pkg/toolset/localrecall/handlers.go *)

\* What a handler does up to its HTTP call: the error it returns before it,
\* the files it reads and the requests it issues.
Plan(err, reads, reqs) == [err |-> err, reads |-> reads, reqs |-> reqs]

Fails(err) == Plan(err, <<>>, <<>>)
Calls(req) == Plan(Nil, <<>>, <<req>>)

NoOutput == [doc |-> {}, enc |-> ""]

\* What a handler does with the outcome of its client call.
Finish(prefix, res, format) ==
    IF res.err # Nil
    THEN [err |-> <<prefix>> \o res.err, out |-> NoOutput]
    ELSE [err |-> Nil, out |-> FormatOutput(res.val, format)]

SearchOptions(p) ==
    LET minSim == GetFloat64Param(p, "min_similarity", 0)
        filters == GetStringMapParam(p, "filters")
    IN IF minSim > 0 \/ Len(filters) > 0
       THEN [nil |-> FALSE, MinSimilarity |-> minSim, Filters |-> filters]
       ELSE NilOptions

SearchHandler(p, readOk) ==
    IF GetStringParam(p, "query", "") = ""
    THEN Fails(<<"query parameter is required">>)
    ELSE Calls(SearchWithOptionsRequest(Background,
                                        GetStringParam(p, "collection_name", ""),
                                        GetStringParam(p, "query", ""),
                                        GetIntParam(p, "max_results", 5),
                                        SearchOptions(p)))

SearchHandlerReturn(p, r) ==
    Finish("search failed: ", Search(r), GetStringParam(p, "format", "json"))

CreateCollectionHandler(p, readOk) ==
    LET name == RequireStringParam(p, "name")
    IN IF name.err # Nil THEN Fails(name.err)
       ELSE Calls(CreateCollectionRequest(Background, name.val))

CreateCollectionHandlerReturn(p, r) ==
    LET name == RequireStringParam(p, "name").val
        build(data) == CollectionInfo(name, getStringField(data, "created_at"), "")
    IN Finish("create collection failed: ", Typed(r, build(ReplyData(r))),
              GetStringParam(p, "format", "json"))

\* mutant: a collection that was reset by the call before is not reset again
ResetCollectionHandler_onceOnly(p, readOk) ==
    LET name == RequireStringParam(p, "name")
    IN CASE name.err # Nil -> Fails(name.err)
         [] previous.tool = "reset_collection" /\ ~previous.result.IsError
            /\ previous.args["name"] = p["name"] ->
               Fails(<<"collection ", name.val, " was already reset">>)
         [] OTHER -> Calls(ResetCollectionRequest(Background, name.val))

ResetCollectionHandler(p, readOk) ==
    LET name == RequireStringParam(p, "name")
    IN IF name.err # Nil THEN Fails(name.err)
       ELSE Calls(ResetCollectionRequest(Background, name.val))

ResetCollectionHandlerReturn(p, r) ==
    LET name == RequireStringParam(p, "name").val
        build(data) == CollectionInfo(name, "", getStringField(data, "reset_at"))
    IN Finish("reset collection failed: ", Typed(r, build(ReplyData(r))),
              GetStringParam(p, "format", "json"))

\* mutant: file_path and file_content accepted together, the path winning
FileSourceError_pathWins(filePath, fileContent) ==
    IF filePath = "" /\ fileContent = ""
    THEN <<"either file_path or file_content must be provided">>
    ELSE Nil

FileSourceError(filePath, fileContent) ==
    CASE filePath = "" /\ fileContent = "" ->
            <<"either file_path or file_content must be provided">>
      [] filePath # "" /\ fileContent # "" ->
            <<"cannot specify both file_path and file_content">>
      [] OTHER -> Nil

AddDocumentHandler(p, readOk) ==
    LET collectionName == GetStringParam(p, "collection_name", "")
        filename == RequireStringParam(p, "filename")
        filePath == GetStringParam(p, "file_path", "")
        fileContent == GetStringParam(p, "file_content", "")
    IN CASE filename.err # Nil -> Fails(filename.err)
         [] FileSourceError(filePath, fileContent) # Nil ->
               Fails(FileSourceError(filePath, fileContent))
         [] filePath # "" /\ ~readOk ->
               Plan(<<"failed to read file: ", "open ", filePath,
                      ": no such file or directory">>, <<filePath>>, <<>>)
         [] filePath # "" ->
               Plan(Nil, <<filePath>>,
                    <<AddDocumentRequest(Background, collectionName, filename.val,
                                         <<"content of ", filePath>>)>>)
         [] OTHER ->
               Calls(AddDocumentRequest(Background, collectionName, filename.val,
                                        <<fileContent>>))

AddDocumentHandlerReturn(p, r) ==
    LET collectionName == GetStringParam(p, "collection_name", "")
        filename == RequireStringParam(p, "filename").val
        build(data) == DocumentInfo(filename, collectionName,
                                    getStringField(data, "created_at"))
    IN Finish("add document failed: ", Typed(r, build(ReplyData(r))),
              GetStringParam(p, "format", "json"))

ListCollectionsHandler(p, readOk) ==
    Calls(ListCollectionsRequest(Background))

ListCollectionsHandlerReturn(p, r) ==
    Finish("list collections failed: ", Typed(r, CollectionsList(ReplyData(r))),
           GetStringParam(p, "format", "json"))

ListFilesHandler(p, readOk) ==
    Calls(ListFilesRequest(Background, GetStringParam(p, "collection_name", "")))

ListFilesHandlerReturn(p, r) ==
    LET collectionName == GetStringParam(p, "collection_name", "")
        build(data) == FilesList(collectionName, data)
    IN Finish("list files failed: ", Typed(r, build(ReplyData(r))),
              GetStringParam(p, "format", "json"))

DeleteEntryHandler(p, readOk) ==
    LET collectionName == GetStringParam(p, "collection_name", "")
        entry == RequireStringParam(p, "entry")
    IN IF entry.err # Nil THEN Fails(entry.err)
       ELSE Calls(DeleteEntryRequest(Background, collectionName, entry.val))

DeleteEntryHandlerReturn(p, r) ==
    LET entry == RequireStringParam(p, "entry").val
        build(data) == DeleteResult(entry, data)
    IN Finish("delete entry failed: ", Typed(r, build(ReplyData(r))),
              GetStringParam(p, "format", "json"))

GetEntryContentHandler(p, readOk) ==
    LET collectionName == GetStringParam(p, "collection_name", "")
        entry == RequireStringParam(p, "entry")
    IN IF entry.err # Nil THEN Fails(entry.err)
       ELSE Calls(GetEntryContentRequest(Background, collectionName, entry.val))

GetEntryContentHandlerReturn(p, r) ==
    Finish("get entry content failed: ", Typed(r, EntryContent(ReplyData(r))),
           GetStringParam(p, "format", "json"))

RegisterSourceHandler(p, readOk) ==
    LET collectionName == GetStringParam(p, "collection_name", "")
        sourceURL == RequireStringParam(p, "url")
        updateInterval == GetIntParam(p, "update_interval", 0)
    IN IF sourceURL.err # Nil THEN Fails(sourceURL.err)
       ELSE Calls(RegisterSourceRequest(Background, collectionName, sourceURL.val,
                                        updateInterval))

RegisterSourceHandlerReturn(p, r) ==
    Finish("register source failed: ", Typed(r, SourceInfo(ReplyData(r))),
           GetStringParam(p, "format", "json"))

RemoveSourceHandler(p, readOk) ==
    LET collectionName == GetStringParam(p, "collection_name", "")
        sourceURL == RequireStringParam(p, "url")
    IN IF sourceURL.err # Nil THEN Fails(sourceURL.err)
       ELSE Calls(RemoveSourceRequest(Background, collectionName, sourceURL.val))

RemoveSourceHandlerReturn(p, r) ==
    Finish("remove source failed: ",
           [val |-> RemovedSource(GetStringParam(p, "collection_name", ""),
                                  RequireStringParam(p, "url").val),
            err |-> RemoveSource(r)],
           GetStringParam(p, "format", "json"))

ListSourcesHandler(p, readOk) ==
    Calls(ListSourcesRequest(Background, GetStringParam(p, "collection_name", "")))

ListSourcesHandlerReturn(p, r) ==
    Finish("list sources failed: ", Typed(r, SourcesList(ReplyData(r))),
           GetStringParam(p, "format", "json"))

ReindexHandler(p, readOk) ==
    Calls(ReindexRequest(Background, GetStringParam(p, "collection_name", "")))

ReindexHandlerReturn(p, r) ==
    Finish("reindex failed: ", Typed(r, ReindexResult(ReplyData(r))),
           GetStringParam(p, "format", "json"))

\* tool.Handler: the handler a descriptor is bound to, up to its HTTP call
HandlerCall(h, p, readOk) ==
    CASE h = "SearchHandler" -> SearchHandler(p, readOk)
      [] h = "AddDocumentHandler" -> AddDocumentHandler(p, readOk)
      [] h = "ListFilesHandler" -> ListFilesHandler(p, readOk)
      [] h = "DeleteEntryHandler" -> DeleteEntryHandler(p, readOk)
      [] h = "GetEntryContentHandler" -> GetEntryContentHandler(p, readOk)
      [] h = "RegisterSourceHandler" -> RegisterSourceHandler(p, readOk)
      [] h = "RemoveSourceHandler" -> RemoveSourceHandler(p, readOk)
      [] h = "ListSourcesHandler" -> ListSourcesHandler(p, readOk)
      [] h = "ReindexHandler" -> ReindexHandler(p, readOk)
      [] h = "CreateCollectionHandler" -> CreateCollectionHandler(p, readOk)
      [] h = "ResetCollectionHandler" -> ResetCollectionHandler(p, readOk)
      [] h = "ListCollectionsHandler" -> ListCollectionsHandler(p, readOk)

\* tool.Handler: the rest of the handler, once the HTTP call is over
HandlerReturn(h, p, r) ==
    CASE h = "SearchHandler" -> SearchHandlerReturn(p, r)
      [] h = "AddDocumentHandler" -> AddDocumentHandlerReturn(p, r)
      [] h = "ListFilesHandler" -> ListFilesHandlerReturn(p, r)
      [] h = "DeleteEntryHandler" -> DeleteEntryHandlerReturn(p, r)
      [] h = "GetEntryContentHandler" -> GetEntryContentHandlerReturn(p, r)
      [] h = "RegisterSourceHandler" -> RegisterSourceHandlerReturn(p, r)
      [] h = "RemoveSourceHandler" -> RemoveSourceHandlerReturn(p, r)
      [] h = "ListSourcesHandler" -> ListSourcesHandlerReturn(p, r)
      [] h = "ReindexHandler" -> ReindexHandlerReturn(p, r)
      [] h = "CreateCollectionHandler" -> CreateCollectionHandlerReturn(p, r)
      [] h = "ResetCollectionHandler" -> ResetCollectionHandlerReturn(p, r)
      [] h = "ListCollectionsHandler" -> ListCollectionsHandlerReturn(p, r)

-----------------------------------------------------------------------------
(* Tool invocation: pkg/server/mcp *)

\* mutant: the earlier wrapper, which filled collection_name in only when the
\* caller gave none
configureTool_fillIfAbsent(p) ==
    LET p1 == IF p["format"].k = "absent" /\ configuration.ListOutput # ""
              THEN With(p, "format", Str(configuration.ListOutput))
              ELSE p
    IN IF configuration.LocalRecallCollection # "" /\ p1["collection_name"].k = "absent"
       THEN With(p1, "collection_name", Str(configuration.LocalRecallCollection))
       ELSE p1

\* mutant: the configured format is written whatever the caller gave
configureTool_forcesFormat(p) ==
    LET p1 == IF configuration.ListOutput # ""
              THEN With(p, "format", Str(configuration.ListOutput))
              ELSE p
    IN IF configuration.LocalRecallCollection # ""
       THEN With(p1, "collection_name", Str(configuration.LocalRecallCollection))
       ELSE p1

\* the parameters the configured handler passes on to tool.Handler
configureTool(p) ==
    LET p1 == IF p["format"].k = "absent" /\ configuration.ListOutput # ""
              THEN With(p, "format", Str(configuration.ListOutput))
              ELSE p
    IN IF configuration.LocalRecallCollection # ""
       THEN With(p1, "collection_name", Str(configuration.LocalRecallCollection))
       ELSE p1

NoResult == [IsError |-> FALSE, Text |-> <<>>, set |-> FALSE]

NewTextResult(content, err) ==
    IF err # Nil
    THEN [IsError |-> TRUE, Text |-> err, set |-> TRUE]
    ELSE [IsError |-> FALSE, Text |-> <<content>>, set |-> TRUE]

\* mutant: the handler's error is also returned as the protocol error
ToolHandlerFunc_propagates(out, err) ==
    [result |-> NewTextResult(out, err), err |-> err]

\* the handler func registerTool installs: return NewTextResult(result, err), nil
ToolHandlerFunc(out, err) ==
    [result |-> NewTextResult(out, err), err |-> Nil]

NoReturn == [err |-> Nil, out |-> NoOutput]

\* no invocation has returned yet
NoPrevious ==
    [tool |-> "", args |-> NoParams, requests |-> <<>>, fileReads |-> <<>>,
     reply |-> NoReply, result |-> NoResult]

\* the invocations that may be in flight together
Slots == {1, 2}

\* an invocation that has not begun: sent is what the caller sent, args the
\* caller's argument map as it is now, params the handler's map
NoCall ==
    [pc |-> "idle", tool |-> "", args |-> NoParams, params |-> NoParams,
     requests |-> <<>>, reply |-> NoReply, result |-> NoResult,
     sent |-> NoParams]

NoCalls == [i \in Slots |-> NoCall]

NoClientReturn == [val |-> NoResultValue, err |-> Nil]

Descriptor(t) == catalog[CHOOSE i \in 1..Len(catalog) : catalog[i].name = t]

-----------------------------------------------------------------------------
(* Inputs *)

\* the collection the server may be pinned to
Pinned == "kb"

\* what a caller may give as collection_name: nothing, the pinned name,
\* another name, a name with a "/" in it, a number
CollectionValues == {Absent, Str(Pinned), Str("other"), Str("a/b"), Num(7)}
\* what a caller may give as format: nothing, yaml, a name that is no format
\* of the formatter, a number
FormatValues == {Absent, Str("yaml"), Str("table"), Num(7)}
MaxResultsValues ==
    {Absent, Str("0"), Str("many")} \cup {Num(i) : i \in 0..MaxResultsArg}
StringValues(s) == {Absent, Str(""), Str(s), Num(7)}

ArgsOver(base, key, values) == {With(a, key, v) : a \in base, v \in values}

CollectionArgs == ArgsOver({NoParams}, "collection_name", CollectionValues)

SearchArgs ==
    ArgsOver(CollectionArgs, "query", {Absent, Str(""), Num(7)})
    \cup ArgsOver(ArgsOver(ArgsOver(CollectionArgs, "query", {Str("invoice")}),
                           "max_results", MaxResultsValues),
                  "format", FormatValues)
    \cup ArgsOver(ArgsOver(ArgsOver({NoParams}, "query", {Str("invoice")}),
                           "min_similarity", {Absent, Num(0), Num(70)}),
                  "filters", {Absent, Map(<<>>), Map(<<"source=docs.md">>)})

AddDocumentArgs ==
    ArgsOver(CollectionArgs, "filename", {Absent, Str(""), Num(7)})
    \cup ArgsOver(ArgsOver(ArgsOver(CollectionArgs, "filename", {Str("a.txt")}),
                           "file_path", {Absent, Str(""), Str("/tmp/a.txt")}),
                  "file_content", {Absent, Str(""), Str("hello")})

ArgsOf(t) ==
    CASE t = "search" -> SearchArgs
      [] t = "add_document" -> AddDocumentArgs
      [] t \in {"list_files", "list_sources", "reindex"} ->
            ArgsOver(CollectionArgs, "format", FormatValues)
      [] t \in {"delete_entry", "get_entry_content"} ->
            ArgsOver(CollectionArgs, "entry", StringValues("e1"))
      [] t = "register_source" ->
            ArgsOver(ArgsOver(CollectionArgs, "url", StringValues("http://src")),
                     "update_interval", {Absent, Num(0), Num(60)})
      [] t = "remove_source" ->
            ArgsOver(CollectionArgs, "url", StringValues("http://src"))
      [] t \in {"create_collection", "reset_collection"} ->
            ArgsOver({NoParams}, "name", StringValues("docs"))
      [] t = "list_collections" ->
            ArgsOver({NoParams}, "format", FormatValues)

\* enabled_tools and disabled_tools name a collection-scoped tool, a
\* collection-independent tool and a tool that does not exist
ListNames == {"search", "create_collection", "nosuch"}

Config(collection, output, key, enabled, disabled) ==
    [EnabledTools |-> enabled, DisabledTools |-> disabled,
     LocalRecallAPIKey |-> key, ListOutput |-> output, LocalRecallCollection |-> collection]

\* the configurations the server is built from
BuildConfigs ==
    {Config(c, "json", "", e, d) :
        c \in {"", Pinned},
        e \in SeqsUpTo(ListNames, MaxListLen),
        d \in SeqsUpTo(ListNames, MaxListLen)}

\* the configurations tools are invoked under
\* strings.ToLower, on the spellings a list_output is given in
ToLower(s) ==
    CASE s \in {"YAML", "Yaml"} -> "yaml"
      [] s = "JSON" -> "json"
      [] s = "Table" -> "table"
      [] OTHER -> s

\* StaticConfig.Validate, as far as the fields of the model go: the error it
\* returns, or Nil
Validate(c) ==
    IF ToLower(c.ListOutput) \in {"table", "yaml", "json"}
    THEN Nil
    ELSE <<"list_output must be one of: table, yaml, json, got ", c.ListOutput>>

\* the values list_output is given: the documented ones, other spellings of
\* them, table, a name of no format, nothing
ListOutputValues == {"json", "yaml", "YAML", "table", "xml", ""}

\* LoadConfig returns the configuration only when Validate accepts it
LoadedConfigs ==
    {c \in {Config(n, o, "", <<>>, <<>>) :
                n \in {"", Pinned}, o \in ListOutputValues} :
        Validate(c) = Nil}

ServeConfigs ==
    {Config(c, o, k, e, <<>>) :
        c \in {"", Pinned}, o \in {"json", "yaml"}, k \in {"", "secret"},
        e \in {<<>>}}
    \cup {Config(c, "json", "", e, d) :
        c \in {"", Pinned}, e \in {<<>>, <<"search", "create_collection">>},
        d \in {<<>>, <<"search">>}}

-----------------------------------------------------------------------------
(* The state machine *)

InitWith(configs) ==
    /\ configuration \in configs
    /\ catalog = GetTools(configuration.LocalRecallCollection)
    /\ regIdx = 1
    /\ enabledTools = <<>>
    /\ pc = "registerTools"
    /\ tool = ""
    /\ args = NoParams
    /\ params = NoParams
    /\ requests = <<>>
    /\ fileReads = <<>>
    /\ reply = NoReply
    /\ result = NoResult
    /\ handlerRet = NoReturn
    /\ protocolErr = Nil
    /\ callerCtx = "none"
    /\ elapsed = 0
    /\ clientRet = NoClientReturn
    /\ previous = NoPrevious
    /\ calls = NoCalls

Init == InitWith(ServeConfigs)

InitBuild == InitWith(BuildConfigs)

\* mutant: the configured handler keeps a caller's format as the server's
\* default instead of leaving the configuration alone
Invoke_remembersFormat(t, a, readOk) ==
    /\ pc = "idle"
    /\ Contains(enabledTools, t)
    /\ LET p == configureTool(a)
           plan == HandlerCall(Descriptor(t).handler, p, readOk)
       IN /\ tool' = t
          /\ args' = a
          /\ params' = p
          /\ fileReads' = plan.reads
          /\ requests' = plan.reqs
          /\ configuration' =
                IF p["format"].k = "string"
                THEN [configuration EXCEPT !.ListOutput = p["format"].s]
                ELSE configuration
          /\ IF plan.err # Nil
             THEN /\ pc' = "done"
                  /\ handlerRet' = [err |-> plan.err, out |-> NoOutput]
                  /\ result' = ToolHandlerFunc(NoOutput, plan.err).result
                  /\ protocolErr' = ToolHandlerFunc(NoOutput, plan.err).err
             ELSE /\ pc' = "waiting"
                  /\ handlerRet' = NoReturn
                  /\ result' = NoResult
                  /\ protocolErr' = Nil
    /\ callerCtx' = "live"
    /\ elapsed' = 0
    /\ UNCHANGED <<catalog, previous, calls, regIdx, enabledTools, reply, clientRet>>

\* A caller invokes a registered tool: the handler registerTool installed
\* copies the arguments, the configured handler injects the policy, and the
\* tool's handler runs up to its HTTP call or to the error it returns before.
Invoke(t, a, readOk) ==
    /\ pc = "idle"
    /\ Contains(enabledTools, t)
    /\ LET p == configureTool(a)
           plan == HandlerCall(Descriptor(t).handler, p, readOk)
       IN /\ tool' = t
          /\ args' = a
          /\ params' = p
          /\ fileReads' = plan.reads
          /\ requests' = plan.reqs
          /\ IF plan.err # Nil
             THEN /\ pc' = "done"
                  /\ handlerRet' = [err |-> plan.err, out |-> NoOutput]
                  /\ result' = ToolHandlerFunc(NoOutput, plan.err).result
                  /\ protocolErr' = ToolHandlerFunc(NoOutput, plan.err).err
             ELSE /\ pc' = "waiting"
                  /\ handlerRet' = NoReturn
                  /\ result' = NoResult
                  /\ protocolErr' = Nil
    /\ callerCtx' = "live"
    /\ elapsed' = 0
    /\ UNCHANGED <<configuration, catalog, previous, calls, regIdx, enabledTools, reply, clientRet>>

\* http.Client.Timeout of the client NewClient builds, in seconds
ClientTimeout == 30

\* mutant: a client without Timeout
TimedOut_never(seconds) == FALSE

\* the client's timer has run out
TimedOut(seconds) == seconds >= ClientTimeout

\* the context a pending request is bound to is done
RequestContextDone ==
    /\ requests # <<>>
    /\ requests[Len(requests)].ctx = Caller
    /\ callerCtx \in ContextFailures

\* mutant: a client that sends the request once more when httpClient.Do fails
Complete_retries(r) ==
    /\ pc = "waiting"
    /\ r.kind \in ContextFailures <=> RequestContextDone
    /\ LET ret == HandlerReturn(Descriptor(tool).handler, params, r)
       IN /\ handlerRet' = ret
          /\ result' = ToolHandlerFunc(ret.out, ret.err).result
          /\ protocolErr' = ToolHandlerFunc(ret.out, ret.err).err
    /\ requests' = IF r.kind \in TransportFailures
                   THEN requests \o requests
                   ELSE requests
    /\ reply' = r
    /\ pc' = "done"
    /\ elapsed' = 0
    /\ UNCHANGED <<configuration, catalog, previous, calls, regIdx, enabledTools, tool, args,
                   params, fileReads, callerCtx, clientRet>>

\* The HTTP round trip is over with outcome r; the handler returns.
Complete(r) ==
    /\ pc = "waiting"
    /\ r.kind \in ContextFailures <=> RequestContextDone
    /\ LET ret == HandlerReturn(Descriptor(tool).handler, params, r)
       IN /\ handlerRet' = ret
          /\ result' = ToolHandlerFunc(ret.out, ret.err).result
          /\ protocolErr' = ToolHandlerFunc(ret.out, ret.err).err
    /\ reply' = r
    /\ pc' = "done"
    /\ elapsed' = 0
    /\ UNCHANGED <<configuration, catalog, previous, calls, regIdx, enabledTools, tool, args,
                   params, requests, fileReads, callerCtx, clientRet>>

\* The remote answers.
Receive == \E st \in StatusCodes, b \in Bodies : Complete(HTTPReply(st, b))

\* httpClient.Do fails: the client's timeout, or connection refused.
TransportError == \E why \in TransportFailures : Complete(DoError(why))

\* The result is handed to the transport; the server waits for the next call.
Return ==
    /\ pc = "done"
    /\ pc' = "idle"
    /\ tool' = ""
    /\ args' = NoParams
    /\ params' = NoParams
    /\ requests' = <<>>
    /\ fileReads' = <<>>
    /\ reply' = NoReply
    /\ result' = NoResult
    /\ handlerRet' = NoReturn
    /\ protocolErr' = Nil
    /\ callerCtx' = "none"
    /\ UNCHANGED <<configuration, catalog, previous, calls, regIdx, enabledTools, elapsed, clientRet>>

Call == \E t \in ToolNames : \E a \in ArgsOf(t), readOk \in BOOLEAN : Invoke(t, a, readOk)

Next ==
    \/ registerTools
    \/ Call
    \/ Receive
    \/ TransportError
    \/ Return

Spec == Init /\ [][Next]_vars

\* The caller cancels the call, or the deadline of its context passes, while
\* the HTTP round trip is pending.
CallerDone ==
    /\ pc = "waiting"
    /\ callerCtx = "live"
    /\ callerCtx' \in ContextFailures
    /\ UNCHANGED <<configuration, catalog, previous, calls, regIdx, enabledTools, pc, tool, args,
                   params, requests, fileReads, reply, result, handlerRet,
                   protocolErr, elapsed, clientRet>>

\* A second passes while the HTTP round trip is pending.
Tick ==
    /\ pc = "waiting"
    /\ ~TimedOut(elapsed)
    /\ elapsed < ClientTimeout
    /\ elapsed' = elapsed + 1
    /\ UNCHANGED <<configuration, catalog, previous, calls, regIdx, enabledTools, pc, tool, args,
                   params, requests, fileReads, reply, result, handlerRet,
                   protocolErr, callerCtx, clientRet>>

\* The client's timer ends the round trip.
Timeout == TimedOut(elapsed) /\ Complete(DoError("timeout"))

\* The connection is refused.
Refused == Complete(DoError("refused"))

\* the answers of the remote in the timed runs: a success and a body that
\* is not JSON
TimedBodies ==
    {Body("envelope", <<>>, 0, "true",
          [k |-> "object", f |-> DataObject(Num(1), 1)], NoError),
     Body("invalid", <<"<">>, 0, "absent", NoData, NoError)}

ReceiveTimed == \E b \in TimedBodies : Complete(HTTPReply(200, b))

\* the configurations of the timed runs
TimedConfigs == {Config(c, "json", "", <<>>, <<>>) : c \in {"", Pinned}}

InitTimed == InitWith(TimedConfigs)

\* tool invocations with the clock and the caller's context: the remote may
\* answer at any time or never
NextTimed ==
    \/ registerTools
    \/ Call
    \/ ReceiveTimed
    \/ Refused
    \/ Tick
    \/ Timeout
    \/ CallerDone
    \/ Return

\* the clock advances and the client's timer fires; nothing obliges the
\* remote to answer
SpecTimed ==
    InitTimed /\ [][NextTimed]_vars /\ WF_vars(Tick) /\ WF_vars(Timeout)

\* A program calls an operation of the client with a context of its own:
\* context.Background(), or one that can be cancelled or has a deadline.
ClientCall(op, ctxState) ==
    /\ pc = "ready"
    /\ tool' = op
    /\ requests' = <<ClientRequest(op, Caller)>>
    /\ callerCtx' = ctxState
    /\ pc' = "clientWaiting"
    /\ UNCHANGED <<configuration, catalog, previous, calls, regIdx, enabledTools, args, params,
                   fileReads, reply, result, handlerRet, protocolErr, elapsed,
                   clientRet>>

\* The context the operation was called with is cancelled, or its deadline
\* passes, before the remote has answered.
ClientContextDone ==
    /\ pc = "clientWaiting"
    /\ callerCtx = "live"
    /\ callerCtx' \in ContextFailures
    /\ UNCHANGED <<configuration, catalog, previous, calls, regIdx, enabledTools, pc, tool, args,
                   params, requests, fileReads, reply, result, handlerRet,
                   protocolErr, elapsed, clientRet>>

\* httpClient.Do is over with outcome r; the operation returns.
ClientComplete(r) ==
    /\ pc = "clientWaiting"
    /\ r.kind \in ContextFailures <=> RequestContextDone
    /\ clientRet' = ClientResult(tool, r)
    /\ reply' = r
    /\ pc' = "clientDone"
    /\ UNCHANGED <<configuration, catalog, previous, calls, regIdx, enabledTools, tool, args,
                   params, requests, fileReads, result, handlerRet, protocolErr,
                   callerCtx, elapsed>>

ClientReceive ==
    \E st \in StatusCodes, b \in Bodies : ClientComplete(HTTPReply(st, b))

ClientTransportError == \E why \in TransportFailures : ClientComplete(DoError(why))

\* httpClient.Do returns the error of the request's context
ClientContextError == RequestContextDone /\ ClientComplete(DoError(callerCtx))

\* The program has the operation's return; the client is ready again.
ClientReturn ==
    /\ pc = "clientDone"
    /\ pc' = "ready"
    /\ tool' = ""
    /\ requests' = <<>>
    /\ reply' = NoReply
    /\ clientRet' = NoClientReturn
    /\ callerCtx' = "none"
    /\ UNCHANGED <<configuration, catalog, previous, calls, regIdx, enabledTools, args, params,
                   fileReads, result, handlerRet, protocolErr, elapsed>>

\* NewClient(baseURL, apiKey), without and with an API key; no server is built
InitClient ==
    /\ configuration \in {Config("", "json", k, <<>>, <<>>) : k \in {"", "secret"}}
    /\ catalog = <<>>
    /\ regIdx = 1
    /\ enabledTools = <<>>
    /\ pc = "ready"
    /\ tool = ""
    /\ args = NoParams
    /\ params = NoParams
    /\ requests = <<>>
    /\ fileReads = <<>>
    /\ reply = NoReply
    /\ result = NoResult
    /\ handlerRet = NoReturn
    /\ protocolErr = Nil
    /\ callerCtx = "none"
    /\ elapsed = 0
    /\ clientRet = NoClientReturn
    /\ previous = NoPrevious
    /\ calls = NoCalls

NextClient ==
    \/ \E op \in ClientOperations, c \in {"background", "live"} : ClientCall(op, c)
    \/ ClientContextDone
    \/ ClientReceive
    \/ ClientTransportError
    \/ ClientContextError
    \/ ClientReturn

\* the client used directly, as its tests use it
SpecClient == InitClient /\ [][NextClient]_vars

\* The result is handed to the transport, and the invocation is remembered
\* as the one that returned last.
ReturnRecorded ==
    /\ pc = "done"
    /\ previous' = [tool |-> tool, args |-> args, requests |-> requests,
                    fileReads |-> fileReads, reply |-> reply, result |-> result]
    /\ pc' = "idle"
    /\ tool' = ""
    /\ args' = NoParams
    /\ params' = NoParams
    /\ requests' = <<>>
    /\ fileReads' = <<>>
    /\ reply' = NoReply
    /\ result' = NoResult
    /\ handlerRet' = NoReturn
    /\ protocolErr' = Nil
    /\ callerCtx' = "none"
    /\ UNCHANGED <<configuration, catalog, calls, regIdx, enabledTools, elapsed,
                   clientRet>>

\* the arguments of the repeated calls: per tool a call that passes the
\* handler's checks and one that does not (or, of a tool without checks, one)
RepeatArgs(t) ==
    LET base == With(NoParams, "collection_name", Str("other"))
    IN CASE t = "search" -> {With(base, "query", Str("invoice")), base}
         [] t = "add_document" ->
               {With(With(base, "filename", Str("a.txt")), "file_path",
                     Str("/tmp/a.txt")), base}
         [] t \in {"delete_entry", "get_entry_content"} ->
               {With(base, "entry", Str("e1")), base}
         [] t \in {"register_source", "remove_source"} ->
               {With(base, "url", Str("http://src")), base}
         [] t \in {"create_collection", "reset_collection"} ->
               {With(NoParams, "name", Str("docs")), NoParams}
         [] OTHER -> {base}

CallRepeat ==
    \E t \in ToolNames : \E a \in RepeatArgs(t), readOk \in BOOLEAN :
        Invoke(t, a, readOk)

InitRepeat == InitWith(TimedConfigs)

\* one invocation after the other, each remembered when it returns
NextRepeat ==
    \/ registerTools
    \/ CallRepeat
    \/ ReceiveTimed
    \/ Refused
    \/ ReturnRecorded

SpecRepeat == InitRepeat /\ [][NextRepeat]_vars

\* server construction alone, over every pair of tool lists
\* Several invocations at once: the MCP server runs each call of a tool's
\* handler on its own goroutine, so the steps of registerTool's handler
\* function, of the configured handler and of the tool's handler interleave.

\* the tools called concurrently and their arguments: a call that passes the
\* handler's checks and one that does not, with and without a format
ConcurrentTools == {"search", "list_files", "create_collection"}

ConcurrentArgs(t) ==
    LET other == With(NoParams, "collection_name", Str("other"))
    IN CASE t = "search" ->
               {With(other, "query", Str("invoice")),
                With(With(NoParams, "query", Str("invoice")), "format",
                     Str("table")),
                other}
         [] t = "list_files" -> {other, With(NoParams, "format", Str("yaml"))}
         [] t = "create_collection" ->
               {With(NoParams, "name", Str("docs")), NoParams}

\* registerTool's handler function is called: params is a fresh map the
\* arguments are copied into
Begin(i, t, a) ==
    /\ pc = "idle"
    /\ calls[i].pc = "idle"
    /\ Contains(enabledTools, t)
    /\ calls' = [calls EXCEPT ![i] =
                    [NoCall EXCEPT !.pc = "copied", !.tool = t, !.sent = a,
                                   !.args = a, !.params = a]]
    /\ UNCHANGED <<configuration, catalog, previous, regIdx, enabledTools, pc,
                   tool, args, params, requests, fileReads, reply, result,
                   handlerRet, protocolErr, callerCtx, elapsed, clientRet>>

\* mutant: the policy is injected into the caller's argument map as well
Configured_inPlace(c) ==
    [c EXCEPT !.params = configureTool(c.params),
              !.args = configureTool(c.params)]

\* the configured handler's writes: into the params map it was handed
Configured(c) == [c EXCEPT !.params = configureTool(c.params)]

\* the configured handler injects the policy
Configure(i) ==
    /\ calls[i].pc = "copied"
    /\ calls' = [calls EXCEPT ![i] = [Configured(@) EXCEPT !.pc = "configured"]]
    /\ UNCHANGED <<configuration, catalog, previous, regIdx, enabledTools, pc,
                   tool, args, params, requests, fileReads, reply, result,
                   handlerRet, protocolErr, callerCtx, elapsed, clientRet>>

\* tool.Handler runs up to its HTTP call, or to the error it returns before
Handle(i) ==
    /\ calls[i].pc = "configured"
    /\ LET c == calls[i]
           plan == HandlerCall(Descriptor(c.tool).handler, c.params, TRUE)
       IN calls' = [calls EXCEPT ![i] =
             IF plan.err # Nil
             THEN [c EXCEPT !.pc = "done",
                            !.result = ToolHandlerFunc(NoOutput, plan.err).result]
             ELSE [c EXCEPT !.pc = "waiting", !.requests = plan.reqs]]
    /\ UNCHANGED <<configuration, catalog, previous, regIdx, enabledTools, pc,
                   tool, args, params, requests, fileReads, reply, result,
                   handlerRet, protocolErr, callerCtx, elapsed, clientRet>>

\* the HTTP round trip of one invocation is over with outcome r
Answer(i, r) ==
    /\ calls[i].pc = "waiting"
    /\ LET c == calls[i]
           ret == HandlerReturn(Descriptor(c.tool).handler, c.params, r)
       IN calls' = [calls EXCEPT ![i] =
             [c EXCEPT !.pc = "done", !.reply = r,
                       !.result = ToolHandlerFunc(ret.out, ret.err).result]]
    /\ UNCHANGED <<configuration, catalog, previous, regIdx, enabledTools, pc,
                   tool, args, params, requests, fileReads, reply, result,
                   handlerRet, protocolErr, callerCtx, elapsed, clientRet>>

\* the result of one invocation is handed to the transport
Deliver(i) ==
    /\ calls[i].pc = "done"
    /\ calls' = [calls EXCEPT ![i] = NoCall]
    /\ UNCHANGED <<configuration, catalog, previous, regIdx, enabledTools, pc,
                   tool, args, params, requests, fileReads, reply, result,
                   handlerRet, protocolErr, callerCtx, elapsed, clientRet>>

ConcurrentConfigs == {Config(c, "yaml", "", <<>>, <<>>) : c \in {"", Pinned}}

InitConcurrent == InitWith(ConcurrentConfigs)

BeginAny ==
    \E i \in Slots, t \in ConcurrentTools : \E a \in ConcurrentArgs(t) :
        Begin(i, t, a)

ConfigureAny == \E i \in Slots : Configure(i)

HandleAny == \E i \in Slots : Handle(i)

AnswerAny ==
    \E i \in Slots :
        \/ \E b \in TimedBodies : Answer(i, HTTPReply(200, b))
        \/ Answer(i, DoError("refused"))

DeliverAny == \E i \in Slots : Deliver(i)

NextConcurrent ==
    \/ registerTools
    \/ BeginAny
    \/ ConfigureAny
    \/ HandleAny
    \/ AnswerAny
    \/ DeliverAny

SpecConcurrent == InitConcurrent /\ [][NextConcurrent]_vars

\* the server built from any configuration LoadConfig returns
InitValidated == InitWith(LoadedConfigs)

SpecValidated == InitValidated /\ [][Next]_vars

NextBuild == registerTools

SpecBuild == InitBuild /\ [][NextBuild]_vars

-----------------------------------------------------------------------------
(* Properties *)

Called == pc \in {"waiting", "done"}

PinnedCollection == configuration.LocalRecallCollection

\* the errors of parameter validation: RequireStringParam's, the search
\* handler's and the upload handler's
IsParameterError(text) ==
    /\ text # <<>>
    /\ text[1] \in {"missing required parameter: ", "parameter ",
                    "query parameter is required",
                    "either file_path or file_content must be provided",
                    "cannot specify both file_path and file_content"}

EndedInParameterError ==
    /\ pc = "done"
    /\ result.IsError
    /\ IsParameterError(result.Text)

\* the document of a successful result
Payload == result.Text[1]

HasPiece(text, piece) == \E i \in 1..Len(text) : text[i] = piece

CatalogNames == {catalog[i].name : i \in 1..Len(catalog)}

\* C1: with a pinned collection, every invocation of a collection-scoped
\* tool reaches its handler and its remote requests with collection_name
\* equal to the pinned value, whatever the caller supplied.
C1_PinnedCollectionOverrides ==
    (PinnedCollection # "" /\ Called /\ tool \in CollectionToolNames) =>
        /\ params["collection_name"] = Str(PinnedCollection)
        /\ \A i \in 1..Len(requests) :
              /\ requests[i].path[1] = "/api/collections/"
              /\ requests[i].path[2] = PinnedCollection

C1_Witness ==
    /\ PinnedCollection # ""
    /\ pc = "waiting"
    /\ tool = "delete_entry"
    /\ args["collection_name"] = Str("other")
    /\ Len(requests) = 1

\* C2: without a pinned collection, an invocation of a collection-scoped
\* tool that carries no collection_name ends in a parameter error and issues
\* no HTTP request.
C2_MissingCollectionRejected ==
    (PinnedCollection = "" /\ Called /\ tool \in CollectionToolNames
     /\ args["collection_name"].k = "absent") =>
        /\ EndedInParameterError
        /\ requests = <<>>

\* C3: create_collection, reset_collection and list_collections are in the
\* catalog exactly when no collection is pinned, and with a pinned collection
\* none of them is ever registered, whatever the enabled and disabled lists.
C3_AdminToolsOnlyUnpinned ==
    \A n \in AdminToolNames :
        /\ n \in CatalogNames <=> PinnedCollection = ""
        /\ Contains(enabledTools, n) => PinnedCollection = ""

C3_Witness ==
    /\ pc = "idle"
    /\ PinnedCollection # ""
    /\ Contains(configuration.EnabledTools, "create_collection")
    /\ ~Contains(configuration.DisabledTools, "create_collection")
    /\ Contains(enabledTools, "search")

\* C4: a collection-scoped descriptor of a pinned catalog has no
\* collection_name property and requires exactly the tool's own required
\* parameters; of an open catalog it has collection_name of kind string,
\* required; apart from collection_name both keep the tool's name and
\* properties.
C4_SchemaFork ==
    \A i \in 1..Len(collectionTools) :
        LET def == collectionTools[i]
            d == catalog[i]
            own == DOMAIN d.props \ {"collection_name"}
        IN /\ d.name = def.name
           /\ [x \in own |-> d.props[x]] = def.props
           /\ IF PinnedCollection # ""
              THEN /\ "collection_name" \notin DOMAIN d.props
                   /\ d.required = def.required
              ELSE /\ "collection_name" \in DOMAIN d.props
                   /\ d.props["collection_name"] = "string"
                   /\ Contains(d.required, "collection_name")
                   /\ {d.required[j] : j \in 1..Len(d.required)} =
                      {"collection_name"} \cup
                      {def.required[j] : j \in 1..Len(def.required)}

C4_Witness ==
    /\ pc = "idle"
    /\ PinnedCollection # ""
    /\ Len(catalog) = Len(collectionTools)
    /\ catalog[1].required = <<"query">>

\* C5: a tool is registered iff its name is not in the disabled-list and the
\* enabled-list is empty or contains it.
C5_Enablement ==
    \A i \in 1..(regIdx - 1) :
        Contains(enabledTools, catalog[i].name) <=>
            /\ ~Contains(configuration.DisabledTools, catalog[i].name)
            /\ \/ configuration.EnabledTools = <<>>
               \/ Contains(configuration.EnabledTools, catalog[i].name)

C5_Witness ==
    /\ pc = "idle"
    /\ Contains(configuration.EnabledTools, "search")
    /\ Contains(configuration.DisabledTools, "search")
    /\ ~Contains(enabledTools, "search")
    /\ Contains(configuration.EnabledTools, "create_collection")
    /\ Contains(enabledTools, "create_collection")
    /\ ~Contains(enabledTools, "list_files")

\* C6: a search whose reply is a bare JSON array of n records succeeds with
\* those n records as results and count n.
C6_BareArrayAccepted ==
    (pc = "done" /\ tool = "search" /\ reply.kind = "http"
     /\ reply.body.shape = "array") =>
        /\ ~result.IsError
        /\ <<"count", Num(Len(reply.body.items))>> \in Payload.doc

\* C7: a search whose reply is an envelope with success=true and a data
\* object carrying a numeric count returns that count, whatever the number
\* of records in data.results.
C7_EnvelopeCountVerbatim ==
    (pc = "done" /\ tool = "search" /\ reply.kind = "http"
     /\ reply.body.shape = "envelope" /\ reply.body.success = "true"
     /\ reply.body.data.k = "object"
     /\ reply.body.data.f["count"].k = "number") =>
        /\ ~result.IsError
        /\ <<"count", Num(reply.body.data.f["count"].n)>> \in Payload.doc

C7_Witness ==
    /\ pc = "done"
    /\ tool = "search"
    /\ reply.kind = "http"
    /\ reply.body.shape = "envelope"
    /\ reply.body.success = "true"
    /\ reply.body.data.k = "object"
    /\ reply.body.data.f["count"] = Num(2)
    /\ Len(reply.body.data.f["results"].a) = 1
    /\ ~result.IsError
    /\ <<"count", Num(2)>> \in Payload.doc

\* C8: the max_results of a search request body is 5 when the caller gave
\* none or gave 0, the caller's number otherwise, and never 0.
C8_MaxResultsDefault ==
    (Called /\ tool = "search" /\ requests # <<>>) =>
        LET sent == requests[1].body["max_results"]
            given == args["max_results"]
        IN /\ sent.k = "number"
           /\ sent.n # 0
           /\ (given.k = "absent" \/ given = Num(0)) => sent.n = 5
           /\ (given.k = "number" /\ given.n # 0) => sent.n = given.n

C8_Witness ==
    /\ pc = "waiting"
    /\ tool = "search"
    /\ PinnedCollection # ""
    /\ args["query"] = Str("invoice")
    /\ args["max_results"] = Num(0)
    /\ requests[1].body["max_results"] = Num(5)
    /\ requests[1].path[2] = PinnedCollection

\* C9: add_document with file_path and file_content both non-empty, or both
\* empty, ends in a parameter error without a file read or an HTTP request.
C9_ExactlyOneFileSource ==
    (Called /\ tool = "add_document"
     /\ (GetStringParam(args, "file_path", "") = "")
            = (GetStringParam(args, "file_content", "") = "")) =>
        /\ EndedInParameterError
        /\ requests = <<>>
        /\ fileReads = <<>>

C9_Witness ==
    /\ pc = "done"
    /\ tool = "add_document"
    /\ args["filename"] = Str("a.txt")
    /\ args["file_path"] = Str("/tmp/a.txt")
    /\ args["file_content"] = Str("hello")
    /\ result.IsError
    /\ result.Text = <<"cannot specify both file_path and file_content">>

NotJSON == pc = "done" /\ reply.kind = "http" /\ reply.body.shape = "invalid"

\* the pieces of a text that are characters of a body that is not JSON
BodyPieces(text) == {i \in 1..Len(text) : text[i] \in BodyChars}

C11_FailuresAreFlaggedResults ==
    pc = "done" =>
        /\ protocolErr = Nil
        /\ result.set
        /\ result.IsError <=> handlerRet.err # Nil
        /\ handlerRet.err # Nil => result.Text = handlerRet.err
        /\ handlerRet.err = Nil =>
              /\ result.Text = <<handlerRet.out>>
              /\ handlerRet.out.enc \in {"json", "yaml"}
        /\ (requests = <<>> \/ reply.kind \in TransportFailures
            \/ reply.body.shape = "invalid") => result.IsError

C11_Witness ==
    /\ pc = "done"
    /\ tool = "list_files"
    /\ reply.kind = "refused"
    /\ handlerRet.err = <<"list files failed: ", "failed to make request: ",
                          "connect: connection refused">>
    /\ result.IsError
    /\ result.Text = handlerRet.err
    /\ protocolErr = Nil

\* the remote answered with an envelope whose success is false or missing
NotSuccess ==
    /\ pc = "done"
    /\ reply.kind = "http"
    /\ reply.body.shape = "envelope"
    /\ reply.body.success # "true"

\* the last n pieces of a text
Ending(text, n) == SubSeq(text, Len(text) - n + 1, Len(text))

\* C12: an envelope with success=false never yields a successful result,
\* whatever its data; when it carries an error object the message is
\* "API error: " and then <code>: <message>, followed by " - <details>"
\* iff details is not empty.
C12_APIErrorMessage ==
    NotSuccess =>
        /\ result.IsError
        /\ reply.body.error.present =>
              LET e == reply.body.error
                  said == IF e.Details = ""
                          THEN <<"API error: ", e.Code, ": ", e.Message>>
                          ELSE <<"API error: ", e.Code, ": ", e.Message,
                                 " - ", e.Details>>
              IN /\ Len(result.Text) > Len(said)
                 /\ Ending(result.Text, Len(said)) = said

C12_Witness ==
    /\ NotSuccess
    /\ tool = "create_collection"
    /\ reply.status = 404
    /\ reply.body.success = "false"
    /\ reply.body.data.k = "object"
    /\ reply.body.error.Details # ""
    /\ result.IsError
    /\ result.Text = <<"create collection failed: ", "API error: ", "NOT_FOUND",
                       ": ", "Collection not found", " - ",
                       "Collection 'x' does not exist">>

InvalidResponseText == "invalid API response: missing success, error, and data fields"

\* C13: an envelope without success that has neither data nor error is
\* rejected as an invalid response; one that has data or an error is an
\* API error; the two messages differ.
C13_InvalidResponseDistinct ==
    NotSuccess =>
        /\ result.IsError
        /\ IF reply.body.data.k = "absent" /\ ~reply.body.error.present
           THEN /\ HasPiece(result.Text, InvalidResponseText)
                /\ ~HasPiece(result.Text, "API error: ")
           ELSE /\ HasPiece(result.Text, "API error: ")
                /\ ~HasPiece(result.Text, InvalidResponseText)

C13_Witness ==
    /\ NotSuccess
    /\ tool = "list_sources"
    /\ reply.body.success = "absent"
    /\ reply.body.data.k = "absent"
    /\ ~reply.body.error.present
    /\ result.Text = <<"list sources failed: ", InvalidResponseText>>

\* C14: an invocation whose caller cancelled, or whose caller's deadline
\* passed, while the HTTP call was pending ends in a cancellation or deadline
\* error, without the remote's reply.
C14_CallerCancellationHonoured ==
    (pc = "done" /\ callerCtx \in ContextFailures) =>
        /\ result.IsError
        /\ reply.kind # "http"
        /\ \/ HasPiece(result.Text, "context canceled")
           \/ HasPiece(result.Text, "context deadline exceeded")

\* C16: every pending invocation ends with a result, also when the remote
\* never answers: the round trip lasts at most the 30 seconds of the client's
\* timeout and then ends in an error.
C16_InvocationTerminates ==
    /\ [](elapsed <= 30)
    /\ [](pc = "done" /\ reply.kind = "timeout" => result.IsError)
    /\ (pc = "waiting") ~> (pc = "done" /\ result.set)

C16_Witness ==
    /\ pc = "done"
    /\ tool = "search"
    /\ reply.kind = "timeout"
    /\ result.IsError
    /\ HasPiece(result.Text,
                "context deadline exceeded (Client.Timeout exceeded while awaiting headers)")

\* C15: the request of a client operation is bound to the context the
\* operation was called with, and an operation whose context was cancelled
\* or ran past its deadline before the remote answered returns the
\* context's error and no result.
C15_ClientHonoursContext ==
    /\ pc \in {"clientWaiting", "clientDone"} =>
          \A i \in 1..Len(requests) : requests[i].ctx = Caller
    /\ (pc = "clientDone" /\ callerCtx \in ContextFailures) =>
          /\ clientRet.err # Nil
          /\ clientRet.val = NoResultValue
          /\ reply.kind = callerCtx
          /\ clientRet.err = <<"failed to make request: ">> \o
                (IF callerCtx = "deadline"
                 THEN <<"context deadline exceeded">>
                 ELSE <<"context canceled">>)

C15_Witness ==
    /\ pc = "clientDone"
    /\ tool = "Search"
    /\ callerCtx = "deadline"
    /\ requests[1].ctx = Caller
    /\ clientRet.val = NoResultValue
    /\ clientRet.err = <<"failed to make request: ", "context deadline exceeded">>

\* C17: every request, JSON or multipart, carries Authorization: Bearer
\* <api key> when an API key is configured, and no Authorization header when
\* none is.
C17_AuthorizationHeader ==
    \A i \in 1..Len(requests) :
        IF configuration.LocalRecallAPIKey # ""
        THEN requests[i].authorization =
                <<"Bearer ", configuration.LocalRecallAPIKey>>
        ELSE requests[i].authorization = <<>>

C17_Witness ==
    /\ pc = "waiting"
    /\ tool = "add_document"
    /\ configuration.LocalRecallAPIKey = "secret"
    /\ requests[1].contentType = "multipart/form-data"
    /\ requests[1].authorization = <<"Bearer ", "secret">>

\* C18: the body of a search request has min_similarity only when the caller
\* gave one above 0, and filters only when the caller gave a non-empty map;
\* what it has is what the caller gave.
C18_OptionsOnlyWhenSupplied ==
    (Called /\ tool = "search" /\ requests # <<>>) =>
        LET sent == requests[1].body
            minSim == args["min_similarity"]
            filters == args["filters"]
        IN /\ sent["min_similarity"].k # "absent" <=>
                 (minSim.k = "number" /\ minSim.n > 0)
           /\ sent["min_similarity"].k # "absent" =>
                 sent["min_similarity"] = minSim
           /\ sent["filters"].k # "absent" <=>
                 (filters.k = Map(<<>>).k /\ filters.a # <<>>)
           /\ sent["filters"].k # "absent" => sent["filters"] = filters

C18_Witness ==
    /\ pc = "waiting"
    /\ tool = "search"
    /\ args["min_similarity"] = Num(0)
    /\ args["filters"] = Map(<<"source=docs.md">>)
    /\ requests[1].body["min_similarity"] = Absent
    /\ requests[1].body["filters"] = Map(<<"source=docs.md">>)

\* C19: in the path of every request the collection name is one segment, the
\* third, and the segments after it are those of the operation's endpoint.
C19_CollectionNameOneSegment ==
    \A i \in 1..Len(requests) :
        LET path == requests[i].path
            segments == URLSegments(path)
        IN Len(path) >= 3 =>
              /\ segments[3] = path[2]
              /\ SubSeq(segments, 4, Len(segments)) =
                    Literal(path[3]) \o
                    (IF Len(path) = 4 THEN <<path[4]>> ELSE <<>>)

\* C20: a successful result is YAML exactly when the handler's format is
\* "yaml" and JSON for "json" and for any other value; a reply that is a
\* success envelope with a data object yields a successful result whatever
\* the format.
C20_FormatFallback ==
    /\ (pc = "done" /\ ~result.IsError) =>
          Payload.enc = IF GetStringParam(params, "format", "json") = "yaml"
                        THEN "yaml" ELSE "json"
    /\ (pc = "done" /\ reply.kind = "http" /\ reply.body.shape = "envelope"
        /\ reply.body.success = "true" /\ reply.body.data.k = "object") =>
          ~result.IsError

C20_Witness ==
    /\ pc = "done"
    /\ tool = "list_files"
    /\ args["format"] = Str("table")
    /\ params["format"] = Str("table")
    /\ ~result.IsError
    /\ Payload.enc = "json"

\* the invocation in hand has the tool and the arguments of the one that
\* returned before it
SameCall == Called /\ previous.tool = tool /\ previous.args = args

\* ... and the file read, the requests and the remote reply as well
Repeated ==
    /\ pc = "done"
    /\ SameCall
    /\ previous.fileReads = fileReads
    /\ previous.requests = requests
    /\ previous.reply = reply

\* C21: an invocation that repeats the one before it issues the requests the
\* first one issued (the outcome of a file read apart) and, given the same
\* remote reply, returns the same result; a second reset_collection that the
\* remote answers with success succeeds.
C21_RepeatCallsSameResult ==
    /\ (SameCall /\ fileReads = <<>>) => requests = previous.requests
    /\ Repeated => result = previous.result
    /\ (Repeated /\ tool = "reset_collection" /\ reply.kind = "http"
        /\ reply.body.success = "true") => ~result.IsError

C21_Witness ==
    /\ Repeated
    /\ tool = "reset_collection"
    /\ args["name"] = Str("docs")
    /\ Len(requests) = 1
    /\ reply.kind = "http"
    /\ reply.body.success = "true"
    /\ ~previous.result.IsError
    /\ ~result.IsError

\* a client operation returned a typed result
Returned == pc = "clientDone" /\ clientRet.err = Nil /\ tool # "RemoveSource"

\* the json keys of a document
Keys(doc) == {m[1] : m \in doc}

\* C22: the JSON document of a typed result, parsed back into the result's
\* type, is the result: same fields, same values, also when an optional
\* string is empty and its key is left out of the document.
C22_JSONRoundTrip ==
    Returned =>
        LET doc == FormatJSON(clientRet.val).doc
        IN /\ ParseJSON(doc, clientRet.val) = clientRet.val
           /\ \A f \in Fields(clientRet.val) :
                 f.json \in Keys(doc) \/ (f.omitempty /\ f.val = Str(""))

C22_Witness ==
    /\ Returned
    /\ tool = "CreateCollection"
    /\ clientRet.val.type = "CollectionInfo"
    /\ clientRet.val.fields[2].val = Str("")
    /\ Keys(FormatJSON(clientRet.val).doc) = {"name"}
    /\ ParseJSON(FormatJSON(clientRet.val).doc, clientRet.val) = clientRet.val

\* the string parameter a tool cannot do without
RequiredString(t) ==
    CASE t = "search" -> "query"
      [] t = "add_document" -> "filename"
      [] t \in {"delete_entry", "get_entry_content"} -> "entry"
      [] t \in {"register_source", "remove_source"} -> "url"
      [] t \in {"create_collection", "reset_collection"} -> "name"
      [] OTHER -> ""

\* C23: an invocation whose required string parameter is missing, is not a
\* string or is empty ends in a parameter error, without a file read and
\* without an HTTP request.
C23_RequiredStringRejected ==
    (Called /\ RequiredString(tool) # ""
     /\ (args[RequiredString(tool)].k # "string"
         \/ args[RequiredString(tool)].s = "")) =>
        /\ EndedInParameterError
        /\ requests = <<>>
        /\ fileReads = <<>>

C23_Witness ==
    /\ pc = "done"
    /\ tool = "register_source"
    /\ args["url"] = Str("")
    /\ args["update_interval"] = Num(60)
    /\ result.IsError
    /\ result.Text = <<"parameter ", "url", " cannot be empty">>
    /\ requests = <<>>

\* the format an invocation is to be answered in: the value under the
\* caller's format key when there is one, else the configured default
CallerFormat ==
    IF args["format"].k # "absent"
    THEN args["format"]
    ELSE Str(configuration.ListOutput)

\* C24: the handler receives the caller's format when the caller's arguments
\* have a format key, whatever its value, and the configured default
\* otherwise; a successful result is written in that format (YAML for
\* "yaml", JSON for anything else).
C24_EffectiveFormat ==
    Called =>
        /\ params["format"] = CallerFormat
        /\ (pc = "done" /\ ~result.IsError) =>
              Payload.enc = IF CallerFormat = Str("yaml") THEN "yaml" ELSE "json"

C24_Witness ==
    /\ pc = "done"
    /\ tool = "list_sources"
    /\ configuration.ListOutput = "yaml"
    /\ args["format"] = Str("table")
    /\ params["format"] = Str("table")
    /\ ~result.IsError
    /\ Payload.enc = "json"

\* the names registerTools registers under the configuration, in catalog order
Registered ==
    LET names == [i \in 1..Len(catalog) |-> catalog[i].name]
    IN SelectSeq(names, shouldEnableTool)

\* the server is serving: registration is over
Serving == pc # "registerTools"

\* C25: once the server serves, no step of any invocation, whether it ends
\* in success or in an error, changes the configuration, the catalog or the
\* list of registered names; these stay what construction made them.
C25_SharedStateUnchanged ==
    /\ [](Serving => /\ catalog = GetTools(configuration.LocalRecallCollection)
                     /\ enabledTools = Registered)
    /\ [][Serving => UNCHANGED <<configuration, catalog, enabledTools, regIdx>>]_vars

C25_Witness ==
    /\ pc = "done"
    /\ tool = "search"
    /\ result.IsError
    /\ Len(requests) = 1
    /\ reply.kind \in TransportFailures
    /\ args["format"] = Str("table")
    /\ configuration.ListOutput = "yaml"
    /\ configuration.LocalRecallCollection = Pinned
    /\ params["collection_name"] = Str(Pinned)
    /\ args["collection_name"] # Str(Pinned)
    /\ enabledTools = Registered
    /\ Contains(enabledTools, "search")

\* what an invocation of tool t with the arguments sent does when it runs
\* alone: the handler's parameters, its plan and, for outcome r of the HTTP
\* call, its result
AloneParams(sent) == configureTool(sent)

AlonePlan(t, sent) ==
    HandlerCall(Descriptor(t).handler, AloneParams(sent), TRUE)

AloneResult(t, sent, r) ==
    IF AlonePlan(t, sent).err # Nil
    THEN ToolHandlerFunc(NoOutput, AlonePlan(t, sent).err).result
    ELSE LET ret == HandlerReturn(Descriptor(t).handler, AloneParams(sent), r)
         IN ToolHandlerFunc(ret.out, ret.err).result

\* C26: whatever other invocation is in flight and however the steps
\* interleave, the caller's argument map stays what the caller sent, the
\* handler's parameters are the sent arguments with the policy injected, and
\* requests and result are those of the invocation run alone.
C26_ConcurrentIsolation ==
    \A i \in Slots :
        LET c == calls[i]
        IN c.pc # "idle" =>
            /\ c.args = c.sent
            /\ c.pc = "copied" => c.params = c.sent
            /\ c.pc \in {"configured", "waiting", "done"} =>
                  c.params = AloneParams(c.sent)
            /\ c.pc = "waiting" => c.requests = AlonePlan(c.tool, c.sent).reqs
            /\ c.pc = "done" => c.result = AloneResult(c.tool, c.sent, c.reply)

C26_Witness ==
    /\ calls[1].pc = "done"
    /\ calls[2].pc = "waiting"
    /\ calls[1].tool = "search"
    /\ calls[2].tool = "search"
    /\ calls[1].sent # calls[2].sent
    /\ configuration.LocalRecallCollection = Pinned
    /\ calls[1].params # calls[1].sent
    /\ calls[2].params # calls[2].sent
    /\ calls[1].params # calls[2].params
    /\ ~calls[1].result.IsError
    /\ calls[1].result.Text[1].enc = "yaml"

\* C27: an invocation sends at most one HTTP request, however the request
\* ends (reply of any status and body, transport error, timeout); an
\* invocation that ends in a parameter error sends none, and an outcome of
\* an HTTP call belongs to exactly one request.
C27_AtMostOneRequest ==
    /\ Len(requests) <= 1
    /\ EndedInParameterError => requests = <<>>
    /\ reply # NoReply => Len(requests) = 1

C27_Witness ==
    /\ pc = "done"
    /\ tool = "add_document"
    /\ reply.kind = "timeout"
    /\ result.IsError
    /\ Len(requests) = 1
    /\ requests[1].method = "POST"

\* a client operation has returned on an HTTP reply
Answered == pc = "clientDone" /\ reply.kind = "http"

SuccessWithoutObject ==
    /\ Answered
    /\ reply.body.shape = "envelope"
    /\ reply.body.success = "true"
    /\ reply.body.data.k # "object"

\* C29: on a success=true envelope whose data is absent, a string or an
\* array, every operation that returns a typed result returns no value and
\* the error "unexpected response data format"; RemoveSource returns no
\* error.
C29_SuccessWithoutDataObject ==
    SuccessWithoutObject =>
        IF tool = "RemoveSource"
        THEN clientRet.err = Nil
        ELSE /\ clientRet.err = <<"unexpected response data format">>
             /\ clientRet.val = NoResultValue

C29_Witness ==
    /\ SuccessWithoutObject
    /\ tool = "ResetCollection"
    /\ reply.status = 200
    /\ reply.body.data.k = "array"
    /\ clientRet.err = <<"unexpected response data format">>

\* C30: under every configuration Validate accepts, an invocation whose
\* caller gave no format and that succeeds is written in the format
\* list_output names: YAML for every accepted spelling of yaml, JSON for
\* json, and no accepted value in another format than the one it names.
C30_AcceptedFormatHonoured ==
    (pc = "done" /\ ~result.IsError /\ args["format"].k = "absent") =>
        /\ Validate(configuration) = Nil
        /\ Payload.enc = ToLower(configuration.ListOutput)

====
